---- MODULE Spec2Model ----
(***************************************************************************)
(* Model of the greenhouse controller: the daily data logger               *)
(* (greenhouse_data_logger.py), the RF outlets and buttons                 *)
(* (greenhouse_hardware_collection.py) and the control loop                *)
(* (greenhouse_manager.py).                                                *)
(*                                                                         *)
(* Temperatures are whole degrees Celsius, times are whole seconds.  A     *)
(* timestamp is a record [date, time]: the calendar date (a day number)    *)
(* and the time of day.  A DataFrame is the sequence of its rows.          *)
(***************************************************************************)
EXTENDS Integers, Sequences, FiniteSets, TLC

\* ------------------------------------------------------------------ bounds
MaxDate == 2        \* calendar dates of the log directory: 1..MaxDate
MaxLogs == 11       \* log_data calls in one behaviour of SpecLogger
MaxDayLogs == 25    \* log_data calls in one behaviour of SpecDay
MaxRestarts == 1    \* process restarts in one behaviour of SpecDay
MaxSteps == 3       \* clock steps of the control loop in one behaviour of Spec
MaxPresses == 1     \* button presses in one behaviour of Spec
MaxQueryLogs == 3   \* log_data calls in one behaviour of SpecQuery
MaxFaultLogs == 4   \* log_data calls in one behaviour of SpecFaults

\* An optional value is a set of at most one element: None is Python's None
\* (or a missing file), Some(x) is the value x.
None == {}
Some(x) == {x}
Get(o) == CHOOSE x \in o : TRUE

Dates == 1 .. MaxDate

VARIABLES
    \* GreenhouseDataLogger
    current_date,       \* _current_date
    current_dataframe,  \* _current_dataframe
    files,              \* the log directory: file name -> Some(rows), or None
    writes,             \* the _save_daily_log calls of the latest operation
    call,               \* the latest operation, its argument and its result
    issued,             \* per date, the number of timestamps handed out
    accepted,           \* per date, the rows this instance took in log_data
    last_logged,        \* the row of the latest log_data call of this instance
    restarts,           \* number of process restarts so far
    day_run,            \* monitor of a run that logs one date only
    \* GreenhouseManager
    settings,           \* the validated configuration
    state,              \* RFOutlet._state of each device
    sent,               \* per device, the RF commands of the latest step
    rf_failed,          \* whether the RF commands of the latest step failed
    now,                \* the clock, in seconds
    presses,            \* number of button presses so far
    sensor_data,        \* what the latest tick read from the sensor
    in_schedule,        \* what is_time_in_schedule returned in the latest tick
    last_sensor_read,
    last_log_write,
    last_camera_capture,
    last_log_cleanup,
    override_since,     \* per device, when a button press switched it on
    \* the process: GreenhouseManager.run and the threads beside it
    running,            \* self.running
    pc,                 \* where the main thread is in run()
    signals,            \* number of SIGINT/SIGTERM the handler has taken
    shutdown_log,       \* the steps shutdown() has made, in order
    loop,               \* the run_control_loop call in progress, step by step
    commands,           \* the outlet commands in progress, with their thread
    observer_alive,     \* whether the thread of config_observer is running
    reloads,            \* number of modifications of the configuration file
    last_reload,        \* the file the latest on_config_changed found
    \* the web server
    app                 \* the Flask application create_app built, or None

loggerVars == <<current_date, current_dataframe, files, writes, call,
                issued, accepted, last_logged, restarts, day_run>>

processVars == <<running, pc, signals, shutdown_log, loop, commands,
                 observer_alive, reloads, last_reload, app>>

managerVars == <<settings, state, sent, rf_failed, now, presses, sensor_data,
                 in_schedule, last_sensor_read, last_log_write,
                 last_camera_capture, last_log_cleanup, override_since,
                 processVars>>

vars == <<current_date, current_dataframe, files, writes, call,
          issued, accepted, last_logged, restarts, day_run,
          settings, state, sent, rf_failed, now, presses, sensor_data,
          in_schedule, last_sensor_read, last_log_write, last_camera_capture,
          last_log_cleanup, override_since,
          running, pc, signals, shutdown_log, loop, commands,
          observer_alive, reloads, last_reload, app>>

\* ------------------------------------------------------------ the logger
log_format == "parquet"

\* strftime("%Y-%m-%d"): the text of a date
Strftime(date) == <<"%Y-%m-%d", date>>

\* strptime(text, "%Y-%m-%d"): the date a text stands for, None (a
\* ValueError) for a text that is no date
Strptime(text) == IF text[1] = "%Y-%m-%d" THEN Some(text[2]) ELSE None

\* _get_log_filename: greenhouse_log_<YYYY-MM-DD>.<extension>
LogFilename(date) == <<"greenhouse_log", Strftime(date), log_format>>

FileNames == { LogFilename(d) : d \in Dates }

\* the row log_data builds from its arguments
MkRecord(timestamp, reading, states) ==
    [ timestamp           |-> timestamp,
      date                |-> timestamp.date,
      time_24hr           |-> timestamp.time,
      temperature_celsius |-> reading.temperature,
      humidity_percent    |-> reading.humidity,
      pressure_hpa        |-> reading.pressure,
      heater_state        |-> states["heater"],
      vent_fan_state      |-> states["vent_fan"],
      grow_lights_state   |-> states["grow_lights"],
      stand_fan_state     |-> states["stand_fan"] ]

LoadDailyLogFresh(dir, date, readOk) == <<>>

\* _load_daily_log: the rows of the file, an empty frame when the file does
\* not exist or cannot be read
LoadDailyLog(dir, date, readOk) ==
    IF dir[LogFilename(date)] # None
    THEN IF readOk THEN Get(dir[LogFilename(date)]) ELSE <<>>
    ELSE <<>>

\* _save_daily_log: the directory after the call; a failed write is caught
\* and leaves the directory as it was
SaveDailyLog(dir, df, date, writeOk) ==
    IF writeOk THEN [dir EXCEPT ![LogFilename(date)] = Some(df)] ELSE dir

\* the record of one _save_daily_log call
SaveEvent(df, date, writeOk) ==
    [file |-> LogFilename(date), rows |-> df, ok |-> writeOk]

\* "is not None and not .empty" of an optional DataFrame
NonEmpty(odf) == odf # None /\ odf # Some(<<>>)

PreviousLogDateNew(resident, date) == date

\* log_data, line 185: the date the previous day's log is saved under
PreviousLogDate(resident, date) == Get(resident)

PeriodicSaveDueFirstOnly(df) == Len(df) = 10

PeriodicSaveDueNever(df) == FALSE

PeriodicSaveDueOffByOne(df) == (Len(df) + 1) % 10 = 0

\* log_data, line 196: every 10th row of the resident log triggers a save
PeriodicSaveDue(df) == Len(df) % 10 = 0

FlushDueOnCadence(odf) == NonEmpty(odf) /\ Len(Get(odf)) % 10 = 0

\* flush, line 203: the resident log is saved when it is not empty
FlushDue(odf) == NonEmpty(odf)

\* log_data as a function of the logger's state: the resident date, the
\* resident log and the directory after the call, and the saves it made
LogDataResult(resident, odf, dir, timestamp, reading, states, readOk, saveOk1, saveOk2) ==
    LET date == timestamp.date
        record == MkRecord(timestamp, reading, states)
        newDay == resident = None \/ resident # Some(date)
        savePrev == newDay /\ NonEmpty(odf)
        prevDate == PreviousLogDate(resident, date)
        dir1 == IF savePrev
                THEN SaveDailyLog(dir, Get(odf), prevDate, saveOk1)
                ELSE dir
        ev1 == IF savePrev
               THEN <<SaveEvent(Get(odf), prevDate, saveOk1)>>
               ELSE <<>>
        base == IF newDay THEN LoadDailyLog(dir1, date, readOk)
                ELSE Get(odf)
        df == Append(base, record)
        periodic == PeriodicSaveDue(df)
        dir2 == IF periodic THEN SaveDailyLog(dir1, df, date, saveOk2) ELSE dir1
        ev2 == IF periodic THEN <<SaveEvent(df, date, saveOk2)>> ELSE <<>>
    IN  [current_date |-> Some(date), current_dataframe |-> Some(df),
         files |-> dir2, writes |-> ev1 \o ev2, record |-> record]

\* the monitor of a single-date run after one more log_data call: the run is
\* live while every log_data call of this instance had the same date, no file
\* of that date existed at the first call and no flush was made
DayRunAfterLog(date, hadFile, nSaves) ==
    IF ~day_run.live
    THEN day_run
    ELSE IF day_run.n = 0
         THEN IF hadFile THEN [day_run EXCEPT !.live = FALSE]
              ELSE [day_run EXCEPT !.date = Some(date), !.n = 1, !.saves = nSaves]
         ELSE IF day_run.date = Some(date) /\ ~day_run.flushed
              THEN [day_run EXCEPT !.n = @ + 1, !.saves = @ + nSaves]
              ELSE [day_run EXCEPT !.live = FALSE]

\* the bookkeeping of one log_data call whose result is r
LogDataNotes(r, date) ==
    /\ writes' = r.writes
    /\ call' = [op |-> "log_data", arg |-> Some(date), ret |-> None,
                fault |-> FALSE]
    /\ accepted' = [accepted EXCEPT ![date] = Append(@, r.record)]
    /\ last_logged' = Some(r.record)
    /\ day_run' = DayRunAfterLog(date, files[LogFilename(date)] # None,
                                 Len(r.writes))

\* log_data
LogData(timestamp, reading, states, readOk, saveOk1, saveOk2) ==
    LET r == LogDataResult(current_date, current_dataframe, files, timestamp,
                           reading, states, readOk, saveOk1, saveOk2)
    IN  /\ current_date' = r.current_date
        /\ current_dataframe' = r.current_dataframe
        /\ files' = r.files
        /\ LogDataNotes(r, timestamp.date)

\* flush
Flush(saveOk) ==
    LET save == FlushDue(current_dataframe)
    IN  /\ files' = IF save
                    THEN SaveDailyLog(files, Get(current_dataframe),
                                      Get(current_date), saveOk)
                    ELSE files
        /\ writes' = IF save
                     THEN <<SaveEvent(Get(current_dataframe),
                                      Get(current_date), saveOk)>>
                     ELSE <<>>
        /\ call' = [op |-> "flush", arg |-> None, ret |-> None,
                    fault |-> FALSE]
        /\ day_run' = IF day_run.live /\ day_run.n > 0 /\ ~day_run.flushed
                      THEN [day_run EXCEPT !.flushed = TRUE,
                                           !.saves = @ + (IF save THEN 1 ELSE 0)]
                      ELSE [day_run EXCEPT !.live = FALSE]
        /\ UNCHANGED <<current_date, current_dataframe, accepted, last_logged>>

GetDataForDateCached(date, readOk) ==
    IF current_date = Some(date)
    THEN current_dataframe
    ELSE IF files[LogFilename(date)] # None
         THEN IF readOk THEN files[LogFilename(date)] ELSE None
         ELSE None

\* get_data_for_date: the rows of the file, None when there is no file or
\* the file cannot be read
GetDataForDate(date, readOk) ==
    IF files[LogFilename(date)] # None
    THEN IF readOk THEN files[LogFilename(date)] ELSE None
    ELSE None

GetLatestReadingFirst(odf) ==
    IF ~NonEmpty(odf) THEN None ELSE Some(Get(odf)[1])

\* get_latest_reading: the last row of the resident log, None when nothing
\* is resident or the resident log is empty
GetLatestReading(odf) ==
    IF ~NonEmpty(odf) THEN None ELSE Some(Get(odf)[Len(Get(odf))])

\* pd.concat of a list of frames
RECURSIVE Concat(_)
Concat(frames) ==
    IF frames = <<>> THEN <<>> ELSE Head(frames) \o Concat(Tail(frames))

RECURSIVE RangeLoopExclusiveEnd(_, _, _, _)
RangeLoopExclusiveEnd(current, end_date, all_data, readOk) ==
    IF ~(current < end_date)
    THEN all_data
    ELSE LET daily_data == GetDataForDate(current, readOk[current])
         IN  RangeLoopExclusiveEnd(current + 1, end_date,
                 IF daily_data # None /\ Get(daily_data) # <<>>
                 THEN Append(all_data, Get(daily_data)) ELSE all_data,
                 readOk)

\* the loop of get_date_range_data from the date current on: the frames of
\* the dates up to end_date that have a non-empty file, in date order;
\* readOk[d] tells whether the file of date d can be read
RECURSIVE RangeLoop(_, _, _, _)
RangeLoop(current, end_date, all_data, readOk) ==
    IF ~(current <= end_date)
    THEN all_data
    ELSE LET daily_data == GetDataForDate(current, readOk[current])
         IN  RangeLoop(current + 1, end_date,
                 IF daily_data # None /\ Get(daily_data) # <<>>
                 THEN Append(all_data, Get(daily_data)) ELSE all_data,
                 readOk)

\* get_date_range_data
GetDateRangeData(start_date, end_date, readOk) ==
    LET all_data == RangeLoop(start_date, end_date, <<>>, readOk)
    IN  IF all_data # <<>> THEN Some(Concat(all_data)) ELSE None

\* a column of a frame
Column(data, name) == [i \in 1 .. Len(data) |-> data[i][name]]

\* Series.min, Series.max and Series.sum of a non-empty column
RECURSIVE SeriesMin(_)
SeriesMin(values) ==
    IF Len(values) = 1 THEN values[1]
    ELSE LET m == SeriesMin(Tail(values))
         IN  IF values[1] < m THEN values[1] ELSE m

RECURSIVE SeriesMax(_)
SeriesMax(values) ==
    IF Len(values) = 1 THEN values[1]
    ELSE LET m == SeriesMax(Tail(values))
         IN  IF values[1] > m THEN values[1] ELSE m

RECURSIVE SeriesSum(_)
SeriesSum(values) ==
    IF values = <<>> THEN 0 ELSE values[1] + SeriesSum(Tail(values))

\* Series.mean, as the exact fraction num / den
SeriesMean(values) == [num |-> SeriesSum(values), den |-> Len(values)]

\* the min, max and mean get_statistics reports of a column (its std is
\* left out)
SeriesStats(values) ==
    [min |-> SeriesMin(values), max |-> SeriesMax(values),
     mean |-> SeriesMean(values)]

\* the sum of a column of booleans: the number of rows where it is true
BoolSum(flags) == SeriesSum([i \in 1 .. Len(flags) |-> IF flags[i] THEN 1 ELSE 0])

UptimePercentAsShare(flags) == [num |-> BoolSum(flags), den |-> Len(flags)]

\* (data[state].sum() / len(data)) * 100, as the exact fraction num / den
UptimePercent(flags) == [num |-> BoolSum(flags) * 100, den |-> Len(flags)]

\* get_statistics: None when get_data_for_date gives None or an empty frame
GetStatistics(date, readOk) ==
    LET odata == GetDataForDate(date, readOk)
        data == Get(odata)
    IN  IF odata = None \/ odata = Some(<<>>)
        THEN None
        ELSE Some(
            [ date |-> Strftime(date),
              record_count |-> Len(data),
              temperature |-> SeriesStats(Column(data, "temperature_celsius")),
              humidity |-> SeriesStats(Column(data, "humidity_percent")),
              pressure |-> SeriesStats(Column(data, "pressure_hpa")),
              device_uptime |->
                [ heater_percent |-> UptimePercent(Column(data, "heater_state")),
                  vent_fan_percent |->
                      UptimePercent(Column(data, "vent_fan_state")),
                  grow_lights_percent |->
                      UptimePercent(Column(data, "grow_lights_state")),
                  stand_fan_percent |->
                      UptimePercent(Column(data, "stand_fan_state")) ] ])

\* log_directory.glob("greenhouse_log_*.<format>"): the files of the
\* directory whose names match the pattern
GlobLogFiles(dir) ==
    { f \in DOMAIN dir : dir[f] # None /\ f[1] = "greenhouse_log"
                                      /\ f[3] = log_format }

\* the orders in which a scan can visit the files S
ScanOrders(S) ==
    { o \in [1 .. Cardinality(S) -> S] :
          \A i, j \in 1 .. Cardinality(S) : o[i] = o[j] => i = j }

\* cleanup_old_logs, line 261: midnight of the file's date is before the
\* cutoff, the time t (seconds) of the call minus max_log_days days
FileExpired(file_date, t, max_log_days) ==
    file_date * 86400 < t - max_log_days * 86400

RECURSIVE CleanupScanAbort(_, _, _, _)
CleanupScanAbort(dir, order, t, max_log_days) ==
    IF order = <<>>
    THEN dir
    ELSE LET log_file == Head(order)
             file_date == Strptime(log_file[2])
         IN  IF file_date = None
             THEN dir
             ELSE IF FileExpired(Get(file_date), t, max_log_days)
                  THEN CleanupScanAbort([dir EXCEPT ![log_file] = None],
                                        Tail(order), t, max_log_days)
                  ELSE CleanupScanAbort(dir, Tail(order), t, max_log_days)

\* the loop of cleanup_old_logs over the files in the order given: a name
\* whose date does not parse raises inside the try block and the loop goes
\* on with the next file; an expired file is unlinked
RECURSIVE CleanupScan(_, _, _, _)
CleanupScan(dir, order, t, max_log_days) ==
    IF order = <<>>
    THEN dir
    ELSE LET log_file == Head(order)
             file_date == Strptime(log_file[2])
         IN  IF file_date = None
             THEN CleanupScan(dir, Tail(order), t, max_log_days)
             ELSE IF FileExpired(Get(file_date), t, max_log_days)
                  THEN CleanupScan([dir EXCEPT ![log_file] = None],
                                   Tail(order), t, max_log_days)
                  ELSE CleanupScan(dir, Tail(order), t, max_log_days)

\* cleanup_old_logs at time t (seconds), as the control loop calls it; the
\* files of its directory all carry a date, and the result of the scan does
\* not depend on the order then
CleanupOldLogs(dir, t, max_log_days) ==
    CleanupScan(dir, CHOOSE o \in ScanOrders(GlobLogFiles(dir)) : TRUE,
                t, max_log_days)

NoDayRun == [live |-> TRUE, date |-> None, n |-> 0, saves |-> 0,
             flushed |-> FALSE]

\* a new process: GreenhouseDataLogger.__init__ over the same log directory
NewLogger ==
    /\ current_date' = None
    /\ current_dataframe' = None
    /\ writes' = <<>>
    /\ call' = [op |-> "__init__", arg |-> None, ret |-> None,
                fault |-> FALSE]
    /\ accepted' = [d \in DOMAIN accepted |-> <<>>]
    /\ last_logged' = None
    /\ day_run' = NoDayRun
    /\ UNCHANGED files

InitLoggerVars ==
    /\ current_date = None
    /\ current_dataframe = None
    /\ files = [f \in FileNames |-> None]
    /\ writes = <<>>
    /\ call = [op |-> "__init__", arg |-> None, ret |-> None,
               fault |-> FALSE]
    /\ issued = [d \in Dates |-> 0]
    /\ accepted = [d \in Dates |-> <<>>]
    /\ last_logged = None
    /\ restarts = 0
    /\ day_run = NoDayRun

\* ------------------------------------------------------- the hardware
Devices == {"heater", "vent_fan", "grow_lights", "stand_fan"}

NoneSent == [d \in Devices |-> <<>>]

\* RFOutlet.turn_on: the RF command is sent and the state is recorded
TurnOn(o, d) ==
    [state |-> [o.state EXCEPT ![d] = TRUE],
     sent  |-> [o.sent EXCEPT ![d] = Append(@, "on")]]

\* RFOutlet.turn_off
TurnOff(o, d) ==
    [state |-> [o.state EXCEPT ![d] = FALSE],
     sent  |-> [o.sent EXCEPT ![d] = Append(@, "off")]]

ToggleAlwaysOn(o, d) == TurnOn(o, d)

\* RFOutlet.toggle
Toggle(o, d) == IF o.state[d] THEN TurnOff(o, d) ELSE TurnOn(o, d)

\* ----------------------------------------------------- the control loop
SWITCH_TIMEOUT == 5 * 60    \* seconds a manual override may last

DaySeconds == 86400

\* datetime.now() at clock t: the calendar date and the time of day
DateOf(t) == t \div DaySeconds
TimeOf(t) == t % DaySeconds

IsTimeInScheduleExclusiveEnd(schedule, current_time) ==
    IF ~schedule.enabled
    THEN FALSE
    ELSE IF schedule.start_time <= schedule.end_time
         THEN schedule.start_time <= current_time /\ current_time < schedule.end_time
         ELSE current_time >= schedule.start_time \/ current_time < schedule.end_time

\* is_time_in_schedule at time of day current_time
IsTimeInSchedule(schedule, current_time) ==
    IF ~schedule.enabled
    THEN FALSE
    ELSE IF schedule.start_time <= schedule.end_time
         THEN schedule.start_time <= current_time /\ current_time <= schedule.end_time
         ELSE current_time >= schedule.start_time \/ current_time <= schedule.end_time

HeaterControlNoBand(o, tc, temperature) ==
    IF tc.heater_enabled
    THEN IF temperature < tc.target_temp_celsius
         THEN IF ~o.state["heater"] THEN TurnOn(o, "heater") ELSE o
         ELSE IF temperature > tc.target_temp_celsius
              THEN IF o.state["heater"] THEN TurnOff(o, "heater") ELSE o
              ELSE o
    ELSE o

\* control_temperature, lines 255-264: the heater
HeaterControl(o, tc, temperature) ==
    IF tc.heater_enabled
    THEN IF temperature < tc.target_temp_celsius - tc.temp_tolerance_celsius
         THEN IF ~o.state["heater"] THEN TurnOn(o, "heater") ELSE o
         ELSE IF temperature > tc.target_temp_celsius
              THEN IF o.state["heater"] THEN TurnOff(o, "heater") ELSE o
              ELSE o
    ELSE o

VentFanControlInclusive(o, tc, temperature) ==
    IF tc.vent_fan_enabled
    THEN IF temperature >= tc.target_temp_celsius + tc.temp_tolerance_celsius
         THEN IF ~o.state["vent_fan"] THEN TurnOn(o, "vent_fan") ELSE o
         ELSE IF temperature < tc.target_temp_celsius
              THEN IF o.state["vent_fan"] THEN TurnOff(o, "vent_fan") ELSE o
              ELSE o
    ELSE o

\* control_temperature, lines 266-275: the vent fan
VentFanControl(o, tc, temperature) ==
    IF tc.vent_fan_enabled
    THEN IF temperature > tc.target_temp_celsius + tc.temp_tolerance_celsius
         THEN IF ~o.state["vent_fan"] THEN TurnOn(o, "vent_fan") ELSE o
         ELSE IF temperature < tc.target_temp_celsius
              THEN IF o.state["vent_fan"] THEN TurnOff(o, "vent_fan") ELSE o
              ELSE o
    ELSE o

ControlTemperatureHeaterHeld(o, tc, temperature) ==
    VentFanControl(IF temperature > tc.target_temp_celsius
                   THEN o
                   ELSE HeaterControl(o, tc, temperature), tc, temperature)

\* control_temperature
ControlTemperature(o, tc, temperature) ==
    VentFanControl(HeaterControl(o, tc, temperature), tc, temperature)

ScheduledControlAlwaysSends(o, d, schedule, current_time) ==
    IF IsTimeInSchedule(schedule, current_time)
    THEN TurnOn(o, d)
    ELSE TurnOff(o, d)

ScheduledControlOnOnly(o, d, schedule, current_time) ==
    IF IsTimeInSchedule(schedule, current_time)
    THEN IF ~o.state[d] THEN TurnOn(o, d) ELSE o
    ELSE o

\* control_scheduled_devices, for one device and its schedule
ScheduledControl(o, d, schedule, current_time) ==
    IF IsTimeInSchedule(schedule, current_time)
    THEN IF ~o.state[d] THEN TurnOn(o, d) ELSE o
    ELSE IF o.state[d] THEN TurnOff(o, d) ELSE o

\* control_scheduled_devices
ControlScheduledDevices(o, cfg, current_time) ==
    ScheduledControl(
        ScheduledControl(o, "grow_lights", cfg.grow_lights_schedule, current_time),
        "stand_fan", cfg.stand_fan_schedule, current_time)

NotEvaluated == [grow_lights |-> None, stand_fan |-> None]

\* the manual override of a device after a step of the control loop: it
\* lasts while the device stays on and the loop sends it no command
OverrideAfterLoop(o) ==
    [d \in Devices |->
        IF o.state[d] /\ o.sent[d] = <<>> THEN override_since[d] ELSE -1]

\* whether the loop reads the sensor at current_time
SensorReadDue(current_time) ==
    current_time - last_sensor_read >= settings.sensor.read_interval_seconds

TickControlScheduleOnFailure(o, cfg, current_time, readDue, reading) ==
    IF readDue /\ reading # None
    THEN ControlScheduledDevices(
             ControlTemperature(o, cfg.temperature_control,
                                Get(reading).temperature),
             cfg, TimeOf(current_time))
    ELSE IF readDue
         THEN ControlScheduledDevices(o, cfg, TimeOf(current_time))
         ELSE o

\* run_control_loop, lines 345-359: temperature control and schedule control
\* run when the sensor was read and the read gave data
TickControl(o, cfg, current_time, readDue, reading) ==
    IF readDue /\ reading # None
    THEN ControlScheduledDevices(
             ControlTemperature(o, cfg.temperature_control,
                                Get(reading).temperature),
             cfg, TimeOf(current_time))
    ELSE o

LogWriteDueEveryRead(ok, cfg, current_time) ==
    ok /\ cfg.data_logging.enabled

\* run_control_loop, lines 361-362: log_data is called after a read that gave
\* data, when logging is enabled and the log interval has passed
LogWriteDue(ok, cfg, current_time) ==
    /\ ok
    /\ cfg.data_logging.enabled
    /\ current_time - last_log_write >= cfg.data_logging.log_interval_seconds

\* capture_image, lines 301-312: whether the call gets as far as making the
\* image directory and taking the picture, the statements that can raise
CaptureAttempted(camera, current_time) ==
    /\ camera.enabled
    /\ camera.active_hours_start <= current_time
    /\ current_time <= camera.active_hours_end

\* run_control_loop, one tick dt seconds after the previous one; reading is
\* what sensor.read_data() returns: Some(reading), or None on a failed read;
\* captureRaises tells whether capture_image raises an exception it does not
\* catch, which ends the tick before line 382
RunControlLoopSteps(dt, reading, captureRaises) ==
    LET current_time == now + dt
        readDue == SensorReadDue(current_time)
        ok == readDue /\ reading # None
        o0 == [state |-> state, sent |-> NoneSent]
        o1 == TickControl(o0, settings, current_time, readDue, reading)
        logDue == LogWriteDue(ok, settings, current_time)
        timestamp == [date |-> DateOf(current_time), time |-> TimeOf(current_time)]
        r == LogDataResult(current_date, current_dataframe, files, timestamp,
                           Get(reading), o1.state, TRUE, TRUE, TRUE)
        dir1 == IF logDue THEN r.files ELSE files
        cameraDue == /\ settings.camera_schedule.enabled
                     /\ current_time - last_camera_capture
                            >= settings.camera_schedule.interval_minutes * 60
        cleanupDue == /\ ~captureRaises
                      /\ current_time - last_log_cleanup >= 86400
    IN  /\ captureRaises =>
               /\ cameraDue
               /\ CaptureAttempted(settings.camera_schedule,
                                   TimeOf(current_time))
        /\ now' = current_time
        /\ sensor_data' = IF readDue THEN [read |-> TRUE, data |-> reading]
                          ELSE [read |-> FALSE, data |-> None]
        /\ in_schedule' =
               IF ok
               THEN [grow_lights |-> Some(IsTimeInSchedule(
                         settings.grow_lights_schedule, TimeOf(current_time))),
                     stand_fan |-> Some(IsTimeInSchedule(
                         settings.stand_fan_schedule, TimeOf(current_time)))]
               ELSE NotEvaluated
        /\ state' = o1.state
        /\ sent' = o1.sent
        /\ override_since' = OverrideAfterLoop(o1)
        /\ last_sensor_read' = IF readDue THEN current_time ELSE last_sensor_read
        /\ last_log_write' = IF logDue THEN current_time ELSE last_log_write
        /\ last_camera_capture' = IF cameraDue /\ ~captureRaises
                                  THEN current_time
                                  ELSE last_camera_capture
        /\ last_log_cleanup' = IF cleanupDue THEN current_time
                               ELSE last_log_cleanup
        /\ files' = IF cleanupDue
                    THEN CleanupOldLogs(dir1, current_time,
                                        settings.data_logging.max_log_days)
                    ELSE dir1
        /\ IF logDue
           THEN /\ current_date' = r.current_date
                /\ current_dataframe' = r.current_dataframe
                /\ LogDataNotes(r, timestamp.date)
           ELSE UNCHANGED <<current_date, current_dataframe, writes, call,
                            accepted, last_logged, day_run>>
        /\ UNCHANGED <<settings, rf_failed, presses, issued, restarts>>
        /\ UNCHANGED <<running, signals, shutdown_log, loop, commands,
                       observer_alive, reloads, last_reload, app>>

\* run_control_loop, a tick that returns
RunControlLoop(dt, reading) == RunControlLoopSteps(dt, reading, FALSE)

\* a button press: Button._handle_button_press runs the callback of
\* initialize_hardware, which toggles the outlet
ButtonPress(d) ==
    LET o == Toggle([state |-> state, sent |-> NoneSent], d)
    IN  /\ presses' = presses + 1
        /\ state' = o.state
        /\ sent' = o.sent
        /\ override_since' = [override_since EXCEPT
                                 ![d] = IF o.state[d] THEN now ELSE -1]
        /\ UNCHANGED <<settings, rf_failed, now, sensor_data, in_schedule,
                       last_sensor_read, last_log_write, last_camera_capture,
                       last_log_cleanup>>
        /\ UNCHANGED processVars
        /\ UNCHANGED loggerVars

\* -------------------------------------------------- the configurations
\* the process starts three minutes before midnight of date 1
StartTime == 2 * DaySeconds - 180

\* a tick comes at once or 150 seconds after the previous step
TickSteps == {0, 150}

Temperatures == {19, 20, 22, 24, 25}

Readings == { [temperature |-> t, humidity |-> 60, pressure |-> 1000] :
                  t \in Temperatures }

\* a window across midnight, a window within the day, a disabled window
AcrossMidnight == [enabled |-> TRUE, start_time |-> DaySeconds - 30,
                   end_time |-> 120]
WithinDay == [enabled |-> TRUE, start_time |-> 120, end_time |-> 270]
Disabled == [enabled |-> FALSE, start_time |-> 120, end_time |-> 270]

\* the hours of the camera: the whole day, or the default 6:00 to 20:00
AllDay == [start |-> 0, end |-> DaySeconds - 1]
DefaultHours == [start |-> 6 * 3600, end |-> 20 * 3600]

\* which automatic controls are enabled and with which tolerance, the
\* schedules of the grow lights and of the stand fan, whether readings are
\* logged and the interval between two logged ones, the hours of the camera
Profiles ==
    { [heater_enabled |-> TRUE, vent_fan_enabled |-> TRUE,
       temp_tolerance_celsius |-> 2,
       grow_lights_schedule |-> AcrossMidnight, stand_fan_schedule |-> Disabled,
       logging_enabled |-> TRUE, log_interval_seconds |-> 600,
       camera_hours |-> AllDay],
      [heater_enabled |-> TRUE, vent_fan_enabled |-> FALSE,
       temp_tolerance_celsius |-> 0,
       grow_lights_schedule |-> WithinDay, stand_fan_schedule |-> AcrossMidnight,
       logging_enabled |-> FALSE, log_interval_seconds |-> 600,
       camera_hours |-> DefaultHours],
      [heater_enabled |-> FALSE, vent_fan_enabled |-> TRUE,
       temp_tolerance_celsius |-> 0,
       grow_lights_schedule |-> Disabled, stand_fan_schedule |-> WithinDay,
       logging_enabled |-> TRUE, log_interval_seconds |-> 300,
       camera_hours |-> DefaultHours] }

SettingsSet ==
    { [ sensor |-> [read_interval_seconds |-> 60],
        temperature_control |->
            [target_temp_celsius |-> 22,
             temp_tolerance_celsius |-> p.temp_tolerance_celsius,
             heater_enabled |-> p.heater_enabled,
             vent_fan_enabled |-> p.vent_fan_enabled],
        grow_lights_schedule |-> p.grow_lights_schedule,
        stand_fan_schedule |-> p.stand_fan_schedule,
        camera_schedule |-> [enabled |-> TRUE, interval_minutes |-> 30,
                             active_hours_start |-> p.camera_hours.start,
                             active_hours_end |-> p.camera_hours.end],
        data_logging |-> [enabled |-> p.logging_enabled,
                          log_interval_seconds |-> p.log_interval_seconds,
                          max_log_days |-> 365] ] :
      p \in Profiles }

\* no run_control_loop call is in progress
NoLoop == [step |-> "idle", current_time |-> 0, reading |-> None,
           target |-> 0, tolerance |-> 0, used |-> {}]

\* the manager is constructed and run() is not called yet: __init__ has
\* started the configuration observer; no web application is built
InitProcessVars ==
    /\ running = FALSE
    /\ pc = "init"
    /\ signals = 0
    /\ shutdown_log = <<>>
    /\ loop = NoLoop
    /\ commands = {}
    /\ observer_alive = TRUE
    /\ reloads = 0
    /\ last_reload = None
    /\ app = None

InitManagerVars ==
    /\ settings \in SettingsSet
    /\ state = [d \in Devices |-> FALSE]
    /\ sent = NoneSent
    /\ rf_failed = FALSE
    /\ now = StartTime
    /\ presses = 0
    /\ sensor_data = [read |-> FALSE, data |-> None]
    /\ in_schedule = NotEvaluated
    /\ last_sensor_read = 0
    /\ last_log_write = 0
    /\ last_camera_capture = 0
    /\ last_log_cleanup = 0
    /\ override_since = [d \in Devices |-> -1]
    /\ InitProcessVars

Init == InitLoggerVars /\ InitManagerVars

\* what sensor.read_data() can return in a tick at current_time; the sensor
\* is not read in a tick where no reading is due
SensorOutcomes(current_time) ==
    IF SensorReadDue(current_time)
    THEN {None} \cup {Some(x) : x \in Readings}
    ELSE {None}

Tick ==
    \E dt \in TickSteps : \E reading \in SensorOutcomes(now + dt) :
        /\ now + dt <= StartTime + 150 * MaxSteps
        /\ DateOf(now + dt) \in Dates
        /\ RunControlLoop(dt, reading)
        /\ UNCHANGED pc

Press == presses < MaxPresses /\ \E d \in Devices : ButtonPress(d)

Next == Tick \/ Press

Spec == Init /\ [][Next]_vars

\* ------------------------------------------- the logger driven on its own
\* the reading and device states the logger is driven with
LoggerReading == [temperature |-> 22, humidity |-> 60, pressure |-> 1000]

LoggerStates == [d \in Devices |-> FALSE]

TotalIssued == LET S[d \in 0 .. MaxDate] ==
                       IF d = 0 THEN 0 ELSE S[d - 1] + issued[d]
               IN S[MaxDate]

\* the manager of SpecLogger and SpecDay is idle
InitLogger ==
    /\ InitLoggerVars
    /\ InitManagerVars
    /\ settings = CHOOSE c \in SettingsSet : TRUE

\* a client calls log_data with a timestamp of date d; the time of day of
\* the timestamp is the number of the reading within its date
LogDataOn(d) ==
    /\ issued' = [issued EXCEPT ![d] = @ + 1]
    /\ LogData([date |-> d, time |-> issued[d] + 1],
               LoggerReading, LoggerStates, TRUE, TRUE, TRUE)
    /\ UNCHANGED restarts
    /\ UNCHANGED managerVars

DoLogData ==
    /\ TotalIssued < MaxLogs
    /\ \E d \in Dates : LogDataOn(d)

DoFlush ==
    /\ Flush(TRUE)
    /\ UNCHANGED <<issued, restarts>>
    /\ UNCHANGED managerVars

DoGetDataForDate ==
    \E d \in Dates :
        /\ call' = [op |-> "get_data_for_date", arg |-> Some(d),
                    ret |-> GetDataForDate(d, TRUE), fault |-> FALSE]
        /\ writes' = <<>>
        /\ UNCHANGED <<current_date, current_dataframe, files, issued,
                       accepted, last_logged, restarts, day_run>>
        /\ UNCHANGED managerVars

NextLogger == DoLogData \/ DoFlush \/ DoGetDataForDate

SpecLogger == InitLogger /\ [][NextLogger]_vars

\* ------------------------------ one day of logging, with process restarts
\* the first date of the log directory
Today == CHOOSE d \in Dates : \A e \in Dates : d <= e

DayLogData ==
    /\ TotalIssued < MaxDayLogs
    /\ LogDataOn(Today)

DoRestart ==
    /\ restarts < MaxRestarts
    /\ restarts' = restarts + 1
    /\ NewLogger
    /\ UNCHANGED issued
    /\ UNCHANGED managerVars

NextDay == DayLogData \/ DoFlush \/ DoRestart

SpecDay == InitLogger /\ [][NextDay]_vars

\* ------------------------------------------- the queries of the logger
\* the dates a client of SpecQuery logs and asks for
QueryDates == 1 .. MaxDate + 1

\* the k-th reading of a date and the device states logged with it
QueryReading(k) ==
    [temperature |-> 20 + 2 * ((k - 1) % 3),
     humidity |-> 60 + 5 * ((k - 1) % 2),
     pressure |-> 1000 - 3 * ((k - 1) % 3)]

QueryStates(k) ==
    [d \in Devices |->
        CASE d = "heater" -> k % 3 = 1
          [] d = "vent_fan" -> k % 2 = 0
          [] d = "grow_lights" -> TRUE
          [] d = "stand_fan" -> FALSE]

QueryIssued == LET S[d \in 0 .. MaxDate + 1] ==
                       IF d = 0 THEN 0 ELSE S[d - 1] + issued[d]
               IN S[MaxDate + 1]

\* a new logger over an empty directory; the manager is idle
InitQuery ==
    /\ current_date = None
    /\ current_dataframe = None
    /\ files = [f \in { LogFilename(d) : d \in QueryDates } |-> None]
    /\ writes = <<>>
    /\ call = [op |-> "__init__", arg |-> None, ret |-> None, fault |-> FALSE]
    /\ issued = [d \in QueryDates |-> 0]
    /\ accepted = [d \in QueryDates |-> <<>>]
    /\ last_logged = None
    /\ restarts = 0
    /\ day_run = NoDayRun
    /\ InitManagerVars
    /\ settings = CHOOSE c \in SettingsSet : TRUE

QueryLogData ==
    /\ QueryIssued < MaxQueryLogs
    /\ \E d \in QueryDates :
           /\ issued' = [issued EXCEPT ![d] = @ + 1]
           /\ LogData([date |-> d, time |-> issued[d] + 1],
                      QueryReading(issued[d] + 1), QueryStates(issued[d] + 1),
                      TRUE, TRUE, TRUE)
    /\ UNCHANGED restarts
    /\ UNCHANGED managerVars

\* the process is restarted, any number of times: a new logger over the
\* same directory
QueryRestart ==
    /\ NewLogger
    /\ UNCHANGED <<issued, restarts>>
    /\ UNCHANGED managerVars

\* a read that forgets the resident log
QueryForgetsLog(op, arg, ret, fault) ==
    /\ call' = [op |-> op, arg |-> arg, ret |-> ret, fault |-> fault]
    /\ writes' = <<>>
    /\ current_date' = None
    /\ current_dataframe' = None
    /\ UNCHANGED <<files, issued, accepted, last_logged, restarts, day_run>>
    /\ UNCHANGED managerVars

\* an operation that reads the logger and returns ret
Query(op, arg, ret, fault) ==
    /\ call' = [op |-> op, arg |-> arg, ret |-> ret, fault |-> fault]
    /\ writes' = <<>>
    /\ UNCHANGED <<current_date, current_dataframe, files, issued,
                   accepted, last_logged, restarts, day_run>>
    /\ UNCHANGED managerVars

DoGetLatestReading ==
    Query("get_latest_reading", None, GetLatestReading(current_dataframe), FALSE)

DoGetDateRangeData ==
    \E start_date, end_date \in QueryDates :
        Query("get_date_range_data",
              Some([start_date |-> start_date, end_date |-> end_date]),
              GetDateRangeData(start_date, end_date, [d \in QueryDates |-> TRUE]),
              FALSE)

DoGetStatistics ==
    \E d \in QueryDates :
        Query("get_statistics", Some(d), GetStatistics(d, TRUE), FALSE)

QueryGetDataForDate ==
    \E d \in QueryDates :
        Query("get_data_for_date", Some(d), GetDataForDate(d, TRUE), FALSE)

NextQuery ==
    \/ QueryLogData
    \/ DoFlush
    \/ QueryRestart
    \/ DoGetLatestReading
    \/ DoGetDateRangeData
    \/ DoGetStatistics

SpecQuery == InitQuery /\ [][NextQuery]_vars

\* one logger process that logs, flushes and is read by each of its four
\* read operations
NextReads ==
    \/ QueryLogData
    \/ DoFlush
    \/ DoGetLatestReading
    \/ DoGetDateRangeData
    \/ DoGetStatistics
    \/ QueryGetDataForDate

SpecReads == InitQuery /\ [][NextReads]_vars

\* ------------------------------------------- the logger on failing storage
\* the rows an earlier process logged and flushed on the first date
EarlierRows ==
    [i \in 1 .. 8 |-> MkRecord([date |-> Today, time |-> i],
                               LoggerReading, LoggerStates)]

\* the number of log_data calls of this process
FaultLogs == LET S[d \in 0 .. MaxDate] ==
                     IF d = 0 THEN 0 ELSE S[d - 1] + Len(accepted[d])
             IN S[MaxDate]

\* a new logger over a directory that is empty or holds the file an earlier
\* process left of the first date; the manager is idle
InitFaults ==
    /\ current_date = None
    /\ current_dataframe = None
    /\ \E earlier \in {None, Some(EarlierRows)} :
           /\ files = [f \in FileNames |->
                          IF f = LogFilename(Today) THEN earlier ELSE None]
           /\ issued = [d \in Dates |->
                          IF d = Today /\ earlier # None
                          THEN Len(EarlierRows) ELSE 0]
    /\ writes = <<>>
    /\ call = [op |-> "__init__", arg |-> None, ret |-> None, fault |-> FALSE]
    /\ accepted = [d \in Dates |-> <<>>]
    /\ last_logged = None
    /\ restarts = 0
    /\ day_run = NoDayRun
    /\ InitManagerVars
    /\ settings = CHOOSE c \in SettingsSet : TRUE

\* log_data where the load of the file and each save can fail
FaultLogData ==
    /\ FaultLogs < MaxFaultLogs
    /\ \E d \in Dates, readOk, saveOk1, saveOk2 \in BOOLEAN :
           /\ issued' = [issued EXCEPT ![d] = @ + 1]
           /\ LogData([date |-> d, time |-> issued[d] + 1],
                      LoggerReading, LoggerStates, readOk, saveOk1, saveOk2)
    /\ UNCHANGED restarts
    /\ UNCHANGED managerVars

\* flush where the save can fail
FaultFlush ==
    /\ \E saveOk \in BOOLEAN : Flush(saveOk)
    /\ UNCHANGED <<issued, restarts>>
    /\ UNCHANGED managerVars

\* whether reading the file of date d hits a fault: the file is there and
\* cannot be read
ReadFault(d, readOk) == files[LogFilename(d)] # None /\ ~readOk

FaultGetDataForDate ==
    \E d \in Dates, readOk \in BOOLEAN :
        Query("get_data_for_date", Some(d), GetDataForDate(d, readOk),
              ReadFault(d, readOk))

FaultGetStatistics ==
    \E d \in Dates, readOk \in BOOLEAN :
        Query("get_statistics", Some(d), GetStatistics(d, readOk),
              ReadFault(d, readOk))

FaultGetDateRangeData ==
    \E start_date, end_date \in Dates, readOk \in [Dates -> BOOLEAN] :
        Query("get_date_range_data",
              Some([start_date |-> start_date, end_date |-> end_date]),
              GetDateRangeData(start_date, end_date, readOk),
              \E d \in start_date .. end_date : ReadFault(d, readOk[d]))

NextFaults ==
    \/ FaultLogData
    \/ FaultFlush
    \/ FaultGetDataForDate
    \/ FaultGetStatistics
    \/ FaultGetDateRangeData

SpecFaults == InitFaults /\ [][NextFaults]_vars

\* --------------------------------------------- the outlets on their own
\* a call of turn_on, turn_off or toggle of an outlet that is not in mock
\* mode; rfOk tells whether codesend ran and exited with success.
\* _execute_rf_command catches every failure and returns nothing
OutletCall(o, rfOk) ==
    /\ state' = o.state
    /\ sent' = o.sent
    /\ rf_failed' = ~rfOk
    /\ UNCHANGED <<settings, now, presses, sensor_data, in_schedule,
                   last_sensor_read, last_log_write, last_camera_capture,
                   last_log_cleanup, override_since>>
    /\ UNCHANGED processVars
    /\ UNCHANGED loggerVars

DoTurnOn ==
    \E d \in Devices, rfOk \in BOOLEAN :
        OutletCall(TurnOn([state |-> state, sent |-> NoneSent], d), rfOk)

DoTurnOff ==
    \E d \in Devices, rfOk \in BOOLEAN :
        OutletCall(TurnOff([state |-> state, sent |-> NoneSent], d), rfOk)

DoToggle ==
    \E d \in Devices, rfOk \in BOOLEAN :
        OutletCall(Toggle([state |-> state, sent |-> NoneSent], d), rfOk)

NextOutlet == DoTurnOn \/ DoTurnOff \/ DoToggle

SpecOutlet == InitLogger /\ [][NextOutlet]_vars

\* ----------------------------------------------- the retention cleanup
\* the day the cleanup runs on, and the times of that day it can run at
CleanupToday == 100

CleanupTimes == {0, 1, DaySeconds \div 2}

\* the values of max_log_days
CleanupMaxLogDays == {30, 31}

\* the dates of the log files the directory can hold
CleanupDates == {CleanupToday - 31, CleanupToday - 30, CleanupToday - 29,
                 CleanupToday}

\* greenhouse_log_backup.<format>: a name that matches the pattern of the
\* log files and carries no date
MalformedName == <<"greenhouse_log", <<"backup">>, log_format>>

CleanupNames == { LogFilename(d) : d \in CleanupDates } \cup {MalformedName}

\* a logger is made over a directory that holds any of the files, at
\* midnight of the day of the cleanup; the manager is idle
InitCleanup ==
    /\ current_date = None
    /\ current_dataframe = None
    /\ files \in [CleanupNames ->
                      {None, Some(<<MkRecord([date |-> 0, time |-> 1],
                                            LoggerReading, LoggerStates)>>)}]
    /\ writes = <<>>
    /\ call = [op |-> "__init__", arg |-> None, ret |-> None, fault |-> FALSE]
    /\ issued = [d \in CleanupDates |-> 0]
    /\ accepted = [d \in CleanupDates |-> <<>>]
    /\ last_logged = None
    /\ restarts = 0
    /\ day_run = NoDayRun
    /\ \E c \in SettingsSet, m \in CleanupMaxLogDays :
           settings = [c EXCEPT !.data_logging.max_log_days = m]
    /\ state = [d \in Devices |-> FALSE]
    /\ sent = NoneSent
    /\ rf_failed = FALSE
    /\ now = CleanupToday * DaySeconds
    /\ presses = 0
    /\ sensor_data = [read |-> FALSE, data |-> None]
    /\ in_schedule = NotEvaluated
    /\ last_sensor_read = 0
    /\ last_log_write = 0
    /\ last_camera_capture = 0
    /\ last_log_cleanup = 0
    /\ override_since = [d \in Devices |-> -1]
    /\ InitProcessVars

\* cleanup_old_logs, the scan visiting the files in any order; the order is
\* kept as the argument of the call
DoCleanupOldLogs ==
    \E order \in ScanOrders(GlobLogFiles(files)) :
        /\ files' = CleanupScan(files, order, now,
                                settings.data_logging.max_log_days)
        /\ call' = [op |-> "cleanup_old_logs", arg |-> Some(order),
                    ret |-> None, fault |-> FALSE]
        /\ writes' = <<>>
        /\ UNCHANGED <<current_date, current_dataframe, issued, accepted,
                       last_logged, restarts, day_run>>
        /\ UNCHANGED managerVars

\* time passes on the day of the cleanup
CleanupLater ==
    /\ \E t \in CleanupTimes :
           /\ CleanupToday * DaySeconds + t > now
           /\ now' = CleanupToday * DaySeconds + t
    /\ UNCHANGED loggerVars
    /\ UNCHANGED <<settings, state, sent, rf_failed, presses, sensor_data,
                   in_schedule, last_sensor_read, last_log_write,
                   last_camera_capture, last_log_cleanup, override_since>>
    /\ UNCHANGED processVars

NextCleanup == DoCleanupOldLogs \/ CleanupLater

SpecCleanup == InitCleanup /\ [][NextCleanup]_vars

\* ------------------------------------------- the process: run and shutdown
MaxSignals == 1     \* signals delivered in one behaviour of SpecRun

\* shutdown, lines 419-447: the calls it makes, in the order of the code,
\* with every button configured
ShutdownSteps ==
    <<"data_logger.flush", "sensor.cleanup", "heater.cleanup",
      "vent_fan.cleanup", "grow_lights.cleanup", "stand_fan.cleanup",
      "heater_button.cleanup", "vent_fan_button.cleanup",
      "grow_lights_button.cleanup", "stand_fan_button.cleanup",
      "config_observer.stop">>

\* the calls of shutdown that release a hardware adapter, a button or the
\* observer; on real hardware each of them can raise
ReleaseSteps == { ShutdownSteps[i] : i \in 1 .. Len(ShutdownSteps) }
                    \ {"data_logger.flush"}

\* shutdown has no try block: the calls steps[1], steps[2], ... run until
\* one raises, and the exception leaves shutdown.  failAt is the number of
\* the call that raises, 0 when none does
RECURSIVE ShutdownRun(_, _, _)
ShutdownRun(steps, i, failAt) ==
    IF i > Len(steps)
    THEN <<>>
    ELSE IF i = failAt
         THEN <<[step |-> steps[i], ok |-> FALSE]>>
         ELSE <<[step |-> steps[i], ok |-> TRUE]>>
                  \o ShutdownRun(steps, i + 1, failAt)

\* shutdown; flush catches the failure of its save (saveOk), the other
\* calls do not catch theirs
Shutdown(failAt, saveOk) ==
    LET ran == ShutdownRun(ShutdownSteps, 1, failAt)
        flushed == \E i \in 1 .. Len(ran) : ran[i].step = "data_logger.flush"
    IN  /\ failAt \in 0 .. Len(ShutdownSteps)
        /\ failAt # 0 => ShutdownSteps[failAt] \in ReleaseSteps
        /\ shutdown_log' = shutdown_log
                               \o <<[step |-> "shutdown", ok |-> TRUE]>> \o ran
        /\ observer_alive' =
               IF \E i \in 1 .. Len(ran) : /\ ran[i].step = "config_observer.stop"
                                           /\ ran[i].ok
               THEN FALSE ELSE observer_alive
        /\ IF flushed
           THEN Flush(saveOk)
           ELSE UNCHANGED <<current_date, current_dataframe, files, writes,
                            call, accepted, last_logged, day_run>>
        /\ pc' = IF pc = "except" \/ failAt # 0 THEN "raised" ELSE "exited"
        /\ UNCHANGED <<issued, restarts>>
        /\ UNCHANGED <<settings, state, sent, rf_failed, now, presses,
                       sensor_data, in_schedule, last_sensor_read,
                       last_log_write, last_camera_capture, last_log_cleanup,
                       override_since>>
        /\ UNCHANGED <<running, signals, loop, commands, reloads, last_reload,
                       app>>

\* a step of run() that only moves the main thread
RunStep(to, run) ==
    /\ pc' = to
    /\ running' = run
    /\ UNCHANGED loggerVars
    /\ UNCHANGED <<settings, state, sent, rf_failed, now, presses,
                   sensor_data, in_schedule, last_sensor_read,
                   last_log_write, last_camera_capture, last_log_cleanup,
                   override_since>>
    /\ UNCHANGED <<signals, shutdown_log, loop, commands, observer_alive,
                   reloads, last_reload, app>>

\* run, lines 392-396: running is set and the signal handlers are registered
RunStart == pc = "init" /\ RunStep("while", TRUE)

RunWhileAlways == pc = "while" /\ RunStep("run_control_loop", running)

\* run, line 399: the loop goes on while running is set; when it is not,
\* the finally block is entered
RunWhile ==
    /\ pc = "while"
    /\ RunStep(IF running THEN "run_control_loop" ELSE "finally", running)

\* run, line 400: a tick; when it raises, the except block prints the
\* exception and raises it again, and the finally block is entered
RunTick ==
    /\ pc = "run_control_loop"
    /\ \E dt \in TickSteps : \E reading \in SensorOutcomes(now + dt) :
       \E captureRaises \in BOOLEAN :
           /\ now + dt <= StartTime + 150 * MaxSteps
           /\ DateOf(now + dt) \in Dates
           /\ RunControlLoopSteps(dt, reading, captureRaises)
           /\ pc' = IF captureRaises THEN "except" ELSE "sleep"

\* run, line 401
RunSleep == pc = "sleep" /\ RunStep("while", running)

\* run, line 407
RunShutdown ==
    /\ pc \in {"finally", "except"}
    /\ \E failAt \in 0 .. Len(ShutdownSteps), saveOk \in BOOLEAN :
           Shutdown(failAt, saveOk)

\* signal_handler: SIGINT or SIGTERM arrives once the handlers are
\* registered; the handler runs on the main thread, between two of its
\* instructions
SignalHandler ==
    /\ pc \in {"while", "run_control_loop", "sleep", "finally", "except"}
    /\ signals < MaxSignals
    /\ signals' = signals + 1
    /\ running' = FALSE
    /\ UNCHANGED loggerVars
    /\ UNCHANGED <<settings, state, sent, rf_failed, now, presses,
                   sensor_data, in_schedule, last_sensor_read,
                   last_log_write, last_camera_capture, last_log_cleanup,
                   override_since>>
    /\ UNCHANGED <<pc, shutdown_log, loop, commands, observer_alive,
                   reloads, last_reload, app>>

NextRun ==
    \/ RunStart
    \/ RunWhile
    \/ RunTick
    \/ RunSleep
    \/ RunShutdown
    \/ SignalHandler

SpecRun == Init /\ [][NextRun]_vars

\* ------------------------------------------- the validation of settings
\* the times of day a schedule is constructed with
ScheduleTimes == {0, 120, 270, DaySeconds \div 2, DaySeconds - 30,
                  DaySeconds - 1}

\* the keyword arguments of TimeSchedule(...): enabled is given or left out
\* (None), start_time and end_time are a time of day, or None for a value
\* that is no time or is left out
RawSchedules ==
    [enabled : {None, Some(TRUE), Some(FALSE)},
     start_time : {None} \cup {Some(t) : t \in ScheduleTimes},
     end_time : {None} \cup {Some(t) : t \in ScheduleTimes}]

ValidateTimeRangeOrdered(data, v) ==
    ~("start_time" \in DOMAIN data /\ v <= data.start_time)

\* TimeSchedule.validate_time_range: whether the validator of end_time
\* accepts v; data holds the fields validated before end_time
ValidateTimeRange(data, v) ==
    ~("start_time" \in DOMAIN data /\ v = data.start_time)

\* TimeSchedule(**raw): the schedule, or None when the validation raises.
\* The fields are validated in the order enabled, start_time, end_time; a
\* field that failed is not in the data the validator of end_time sees
TimeSchedule(raw) ==
    LET enabled == IF raw.enabled = None THEN TRUE ELSE Get(raw.enabled)
        data == IF raw.start_time # None
                THEN [enabled |-> enabled, start_time |-> Get(raw.start_time)]
                ELSE [enabled |-> enabled]
    IN  IF /\ raw.start_time # None
           /\ raw.end_time # None
           /\ ValidateTimeRange(data, Get(raw.end_time))
        THEN Some([enabled |-> enabled,
                   start_time |-> Get(raw.start_time),
                   end_time |-> Get(raw.end_time)])
        ELSE None

\* a client constructs a TimeSchedule; the logger and the manager are idle
DoTimeSchedule ==
    \E raw \in RawSchedules :
        Query("TimeSchedule", Some(raw), TimeSchedule(raw), FALSE)

SpecSchedule == InitLogger /\ [][DoTimeSchedule]_vars

\* ------------------------------------ the reload of the configuration
MaxReloads == 1     \* modifications of the configuration file

\* the content of a configuration file from which the settings c are made
RawSchedule(w) == [enabled |-> Some(w.enabled),
                   start_time |-> Some(w.start_time),
                   end_time |-> Some(w.end_time)]

RawConfig(c) == [c EXCEPT !.grow_lights_schedule = RawSchedule(@),
                          !.stand_fan_schedule = RawSchedule(@)]

InRangeNoUpper(x, lo, hi) == lo <= x

\* Field(ge=lo, le=hi)
InRange(x, lo, hi) == lo <= x /\ x <= hi

\* GreenhouseManagerSettings(**config_data): the settings object, or None
\* when the validation raises
GreenhouseManagerSettings(config_data) ==
    LET tc == config_data.temperature_control
        grow_lights_schedule == TimeSchedule(config_data.grow_lights_schedule)
        stand_fan_schedule == TimeSchedule(config_data.stand_fan_schedule)
    IN  IF /\ InRange(tc.target_temp_celsius, 0, 50)
           /\ InRange(tc.temp_tolerance_celsius, 0, 10)
           /\ InRange(config_data.sensor.read_interval_seconds, 1, 60)
           /\ InRange(config_data.camera_schedule.interval_minutes, 1, 1440)
           /\ InRange(config_data.data_logging.log_interval_seconds, 1, 3600)
           /\ config_data.data_logging.max_log_days >= 1
           /\ grow_lights_schedule # None
           /\ stand_fan_schedule # None
        THEN Some([config_data EXCEPT
                      !.grow_lights_schedule = Get(grow_lights_schedule),
                      !.stand_fan_schedule = Get(stand_fan_schedule)])
        ELSE None

\* TemperatureControl(**raw): the object, None when the validation raises
TemperatureControl(raw) ==
    IF /\ InRange(raw.target_temp_celsius, 0, 50)
       /\ InRange(raw.temp_tolerance_celsius, 0, 10)
    THEN Some(raw) ELSE None

\* HumidityControl(**raw)
HumidityControl(raw) ==
    IF /\ InRange(raw.target_humidity_percent, 0, 100)
       /\ InRange(raw.humidity_tolerance_percent, 0, 50)
    THEN Some(raw) ELSE None

\* CameraSchedule(**raw)
CameraSchedule(raw) ==
    IF InRange(raw.interval_minutes, 1, 1440) THEN Some(raw) ELSE None

\* DataLogging(**raw); the pattern ^(parquet|feather)$ admits two texts
DataLogging(raw) ==
    IF /\ InRange(raw.log_interval_seconds, 1, 3600)
       /\ raw.log_format \in {"parquet", "feather"}
       /\ raw.max_log_days >= 1
    THEN Some(raw) ELSE None

\* DeviceConfig(**raw); the pin of the button may be left out
DeviceConfig(raw) ==
    IF /\ InRange(raw.led_gpio_pin, 0, 27)
       /\ raw.button_gpio_pin # None => InRange(Get(raw.button_gpio_pin), 0, 27)
    THEN Some(raw) ELSE None

\* the arguments a client constructs the settings models with: values at
\* both ends of every range, one step outside and inside
RawTemperatureControls ==
    [target_temp_celsius : {-1, 0, 22, 50, 51},
     temp_tolerance_celsius : {-1, 0, 2, 10, 11},
     heater_enabled : {TRUE}, vent_fan_enabled : {TRUE}]

RawHumidityControls ==
    [target_humidity_percent : {-1, 0, 60, 100, 101},
     humidity_tolerance_percent : {-1, 0, 10, 50, 51}]

RawCameraSchedules ==
    [enabled : BOOLEAN, interval_minutes : {0, 1, 30, 1440, 1441},
     active_hours_start : {DefaultHours.start},
     active_hours_end : {DefaultHours.end}]

RawDataLoggings ==
    [enabled : {TRUE}, log_interval_seconds : {0, 1, 3600, 3601},
     log_format : {"parquet", "feather", "csv"}, max_log_days : {0, 1, 365}]

RawDeviceConfigs ==
    [name : {"Heater"}, rf_on_code : {1}, rf_off_code : {2},
     led_gpio_pin : {-1, 0, 17, 27, 28},
     button_gpio_pin : {None, Some(-1), Some(5), Some(28)}]

\* a client constructs one of the settings models
DoTemperatureControl ==
    \E raw \in RawTemperatureControls :
        Query("TemperatureControl", Some(raw), TemperatureControl(raw), FALSE)

DoHumidityControl ==
    \E raw \in RawHumidityControls :
        Query("HumidityControl", Some(raw), HumidityControl(raw), FALSE)

DoCameraSchedule ==
    \E raw \in RawCameraSchedules :
        Query("CameraSchedule", Some(raw), CameraSchedule(raw), FALSE)

DoDataLogging ==
    \E raw \in RawDataLoggings :
        Query("DataLogging", Some(raw), DataLogging(raw), FALSE)

DoDeviceConfig ==
    \E raw \in RawDeviceConfigs :
        Query("DeviceConfig", Some(raw), DeviceConfig(raw), FALSE)

NextSettings ==
    \/ DoTemperatureControl
    \/ DoHumidityControl
    \/ DoCameraSchedule
    \/ DoDataLogging
    \/ DoDeviceConfig

SpecSettings == InitLogger /\ [][NextSettings]_vars

\* configuration files that do not validate: a target temperature out of
\* range, a stand-fan schedule that ends when it starts
InvalidConfigs ==
    { [RawConfig(c) EXCEPT !.temperature_control.target_temp_celsius = 51] :
          c \in SettingsSet }
    \cup { [RawConfig(c) EXCEPT
               !.stand_fan_schedule.end_time = Some(c.stand_fan_schedule.start_time)] :
           c \in SettingsSet }

\* what on_config_changed can find at the path of the configuration: no
\* file, a file that is no JSON (a half-written one), a JSON document
ConfigFiles ==
    {[kind |-> "missing", data |-> None], [kind |-> "unparsable", data |-> None]}
    \cup { [kind |-> "json", data |-> Some(d)] :
             d \in { RawConfig(c) : c \in SettingsSet } \cup InvalidConfigs }

LoadConfigurationFieldwise(active, file) ==
    IF file.kind # "json"
    THEN [settings |-> active, exit |-> TRUE]
    ELSE LET v == GreenhouseManagerSettings(Get(file.data))
         IN  IF v = None
             THEN [settings |-> [active EXCEPT
                                    !.data_logging = Get(file.data).data_logging],
                   exit |-> TRUE]
             ELSE [settings |-> Get(v), exit |-> FALSE]

\* load_configuration with the settings active before the call: the settings
\* after it, and whether it ended in sys.exit(1).  self.settings is assigned
\* at line 99 only, once the whole document has validated
LoadConfiguration(active, file) ==
    IF file.kind # "json"
    THEN [settings |-> active, exit |-> TRUE]
    ELSE LET v == GreenhouseManagerSettings(Get(file.data))
         IN  IF v = None
             THEN [settings |-> active, exit |-> TRUE]
             ELSE [settings |-> Get(v), exit |-> FALSE]

\* on_config_changed, on the thread of the observer: the SystemExit of
\* sys.exit(1) is no Exception, the except clause of line 219 lets it pass
\* and it ends the thread of the observer; the main thread goes on
OnConfigChanged(file) ==
    LET r == LoadConfiguration(settings, file)
    IN  /\ observer_alive
        /\ reloads < MaxReloads
        /\ reloads' = reloads + 1
        /\ last_reload' = Some(file)
        /\ settings' = r.settings
        /\ observer_alive' = ~r.exit
        /\ UNCHANGED loggerVars
        /\ UNCHANGED <<state, sent, rf_failed, now, presses, sensor_data,
                       in_schedule, last_sensor_read, last_log_write,
                       last_camera_capture, last_log_cleanup, override_since>>
        /\ UNCHANGED <<running, pc, signals, shutdown_log, loop, commands, app>>

ConfigModified == \E file \in ConfigFiles : OnConfigChanged(file)

\* ------------------- the threads: the loop, the button callbacks, reload
\* The main thread runs run_control_loop statement by statement; the
\* callbacks of the buttons, registered with GPIO.add_event_detect, run one
\* at a time on the callback thread of the GPIO library; on_config_changed
\* runs on the thread of the observer.  No lock is taken anywhere.

\* the control loop with the observer of the configuration file beside it
NextReload ==
    \/ Tick
    \/ ConfigModified

SpecReload == Init /\ [][NextReload]_vars

MaxLoopTicks == 1   \* clock steps of the loop in one behaviour of SpecThreads

\* the outlet command a thread has in progress: turn_on or turn_off has
\* called _execute_rf_command, the code is on its way to the outlet, and
\* _state is not yet assigned
CommandOf(thread) == { c \in commands : c.thread = thread }

\* a step of a thread that touches the outlets and the tick in progress
ThreadStep(l, st, snt, cmds, ov, ins, pr) ==
    /\ loop' = l
    /\ state' = st
    /\ sent' = snt
    /\ commands' = cmds
    /\ override_since' = ov
    /\ in_schedule' = ins
    /\ presses' = pr
    /\ UNCHANGED loggerVars
    /\ UNCHANGED <<settings, rf_failed, now, sensor_data, last_sensor_read,
                   last_log_write, last_camera_capture, last_log_cleanup>>
    /\ UNCHANGED <<running, pc, signals, shutdown_log, observer_alive,
                   reloads, last_reload, app>>

\* run_control_loop, lines 342-353 and 376: the clock is read, the sensor is
\* read when a reading is due; without data the tick goes on at line 378
LoopBegin ==
    /\ loop.step = "idle"
    /\ \E dt \in TickSteps : \E reading \in SensorOutcomes(now + dt) :
           LET current_time == now + dt
               readDue == SensorReadDue(current_time)
               ok == readDue /\ reading # None
           IN  /\ current_time <= StartTime + 150 * MaxLoopTicks
               /\ DateOf(current_time) \in Dates
               /\ now' = current_time
               /\ sensor_data' = IF readDue
                                 THEN [read |-> TRUE, data |-> reading]
                                 ELSE [read |-> FALSE, data |-> None]
               /\ in_schedule' = NotEvaluated
               /\ sent' = NoneSent
               /\ last_sensor_read' = IF readDue /\ ~ok THEN current_time
                                      ELSE last_sensor_read
               /\ loop' = [step |-> IF ok THEN "thresholds" ELSE "camera",
                           current_time |-> current_time,
                           reading |-> reading,
                           target |-> 0, tolerance |-> 0, used |-> {}]
    /\ UNCHANGED loggerVars
    /\ UNCHANGED <<settings, state, rf_failed, presses, last_log_write,
                   last_camera_capture, last_log_cleanup, override_since>>
    /\ UNCHANGED <<running, pc, signals, shutdown_log, commands,
                   observer_alive, reloads, last_reload, app>>

\* control_temperature, lines 252-253: target and tolerance are read from
\* the settings of that moment
LoopThresholds ==
    /\ loop.step = "thresholds"
    /\ ThreadStep([loop EXCEPT
                      !.step = "heater",
                      !.target = settings.temperature_control.target_temp_celsius,
                      !.tolerance = settings.temperature_control.temp_tolerance_celsius,
                      !.used = @ \cup {settings}],
                  state, sent, commands, override_since, in_schedule, presses)

\* the device the loop deals with after device d, "log" after the last
AfterDevice(d) ==
    CASE d = "heater" -> "vent_fan"
      [] d = "vent_fan" -> "grow_lights"
      [] d = "grow_lights" -> "stand_fan"
      [] d = "stand_fan" -> "log"

\* what the loop decides for device d: the outlets after the call the code
\* makes, with the thresholds read at lines 252-253 and the settings and
\* the time of this moment
LoopDecision(d) ==
    LET o == [state |-> state, sent |-> NoneSent]
        tc == [target_temp_celsius |-> loop.target,
               temp_tolerance_celsius |-> loop.tolerance,
               heater_enabled |-> settings.temperature_control.heater_enabled,
               vent_fan_enabled |-> settings.temperature_control.vent_fan_enabled]
        temperature == Get(loop.reading).temperature
    IN  CASE d = "heater" -> HeaterControl(o, tc, temperature)
          [] d = "vent_fan" -> VentFanControl(o, tc, temperature)
          [] d = "grow_lights" ->
                 ScheduledControl(o, d, settings.grow_lights_schedule, TimeOf(now))
          [] d = "stand_fan" ->
                 ScheduledControl(o, d, settings.stand_fan_schedule, TimeOf(now))

\* control_temperature and control_scheduled_devices, the lines of device
\* d: get_state() is read and, when the device is to be switched, turn_on
\* or turn_off starts its RF command
LoopControl(d) ==
    LET cmd == LoopDecision(d).sent[d]
        ins == CASE d = "grow_lights" ->
                        [in_schedule EXCEPT !.grow_lights = Some(
                            IsTimeInSchedule(settings.grow_lights_schedule,
                                             TimeOf(now)))]
                 [] d = "stand_fan" ->
                        [in_schedule EXCEPT !.stand_fan = Some(
                            IsTimeInSchedule(settings.stand_fan_schedule,
                                             TimeOf(now)))]
                 [] OTHER -> in_schedule
    IN  /\ loop.step = d
        /\ CommandOf("loop") = {}
        /\ ThreadStep([loop EXCEPT
                          !.step = IF cmd = <<>> THEN AfterDevice(d) ELSE d,
                          !.used = @ \cup {settings}],
                      state,
                      IF cmd = <<>> THEN sent
                      ELSE [sent EXCEPT ![d] = Append(@, cmd[1])],
                      IF cmd = <<>> THEN commands
                      ELSE commands \cup {[thread |-> "loop", device |-> d,
                                           code |-> cmd[1]]},
                      override_since, ins, presses)

\* turn_on, lines 218-220, and turn_off, lines 226-228, of the loop:
\* _execute_rf_command has returned and _state is assigned
LoopCommandEnd ==
    \E c \in CommandOf("loop") :
        ThreadStep([loop EXCEPT !.step = AfterDevice(c.device)],
                   [state EXCEPT ![c.device] = (c.code = "on")],
                   sent,
                   commands \ {c},
                   [override_since EXCEPT ![c.device] = -1],
                   in_schedule, presses)

\* run_control_loop, lines 361-376: log_data with the states of this moment
\* when logging is enabled and the log interval has passed
LoopLog ==
    LET current_time == loop.current_time
        logDue == LogWriteDue(TRUE, settings, current_time)
        timestamp == [date |-> DateOf(current_time), time |-> TimeOf(current_time)]
        r == LogDataResult(current_date, current_dataframe, files, timestamp,
                           Get(loop.reading), state, TRUE, TRUE, TRUE)
    IN  /\ loop.step = "log"
        /\ loop' = [loop EXCEPT !.step = "camera", !.used = @ \cup {settings}]
        /\ last_log_write' = IF logDue THEN current_time ELSE last_log_write
        /\ last_sensor_read' = current_time
        /\ IF logDue
           THEN /\ current_date' = r.current_date
                /\ current_dataframe' = r.current_dataframe
                /\ files' = r.files
                /\ LogDataNotes(r, timestamp.date)
           ELSE UNCHANGED <<current_date, current_dataframe, files, writes,
                            call, accepted, last_logged, day_run>>
        /\ UNCHANGED <<issued, restarts>>
        /\ UNCHANGED <<settings, state, sent, rf_failed, now, presses,
                       sensor_data, in_schedule, last_camera_capture,
                       last_log_cleanup, override_since>>
        /\ UNCHANGED <<running, pc, signals, shutdown_log, commands,
                       observer_alive, reloads, last_reload, app>>

\* run_control_loop, lines 378-387: the camera and the cleanup of old logs
LoopEnd ==
    LET current_time == loop.current_time
        cameraDue == /\ settings.camera_schedule.enabled
                     /\ current_time - last_camera_capture
                            >= settings.camera_schedule.interval_minutes * 60
        cleanupDue == current_time - last_log_cleanup >= 86400
    IN  /\ loop.step = "camera"
        /\ loop' = [loop EXCEPT !.step = "idle"]
        /\ last_camera_capture' = IF cameraDue THEN current_time
                                  ELSE last_camera_capture
        /\ last_log_cleanup' = IF cleanupDue THEN current_time
                               ELSE last_log_cleanup
        /\ files' = IF cleanupDue
                    THEN CleanupOldLogs(files, current_time,
                                        settings.data_logging.max_log_days)
                    ELSE files
        /\ UNCHANGED <<current_date, current_dataframe, writes, call, issued,
                       accepted, last_logged, restarts, day_run>>
        /\ UNCHANGED <<settings, state, sent, rf_failed, now, presses,
                       sensor_data, in_schedule, last_sensor_read,
                       last_log_write, override_since>>
        /\ UNCHANGED <<running, pc, signals, shutdown_log, commands,
                       observer_alive, reloads, last_reload, app>>

\* Button._handle_button_press on the callback thread: the callback of
\* initialize_hardware calls toggle, which reads _state (line 232) and
\* starts the RF command of turn_off or turn_on
ButtonCallbackBegin(d) ==
    /\ presses < MaxPresses
    /\ CommandOf("callback") = {}
    /\ ThreadStep(loop, state,
                  [sent EXCEPT ![d] = Append(@, IF state[d] THEN "off" ELSE "on")],
                  commands \cup {[thread |-> "callback", device |-> d,
                                  code |-> IF state[d] THEN "off" ELSE "on"]},
                  override_since, in_schedule, presses + 1)

\* turn_on, lines 218-220, and turn_off, lines 226-228, of the callback
ButtonCallbackEnd ==
    \E c \in CommandOf("callback") :
        ThreadStep(loop,
                   [state EXCEPT ![c.device] = (c.code = "on")],
                   sent,
                   commands \ {c},
                   [override_since EXCEPT
                       ![c.device] = IF c.code = "on" THEN now ELSE -1],
                   in_schedule, presses)

NextThreads ==
    \/ LoopBegin
    \/ LoopThresholds
    \/ \E d \in Devices : LoopControl(d)
    \/ LoopCommandEnd
    \/ LoopLog
    \/ LoopEnd
    \/ \E d \in Devices : ButtonCallbackBegin(d)
    \/ ButtonCallbackEnd
    \/ ConfigModified

SpecThreads == Init /\ [][NextThreads]_vars

\* ------------------------------------------------------ the web server
\* api/__init__.py, line 18: the module global the handlers of the API test;
\* nothing assigns it after the import
data_logger == None

\* the environment of create_app: the credentials of the configuration and
\* what lies at IMAGE_DIRECTORY
Usernames == {"admin", "test"}
Passwords == {"greenhouse", "password"}

\* greenhouse_<YYYYMMDD>_<HHMMSS>.jpg, taken on date d
Image(d) == <<"greenhouse", d, "120000", "jpg">>

\* no directory, an empty one, one with an image, one with two
ImageDirectories ==
    {None, Some({}), Some({Image(1)}), Some({Image(1), Image(MaxDate)})}

\* create_app: the configuration, the logger attached to the blueprint as
\* an attribute (line 103), and the routes
CreateApp ==
    /\ app = None
    /\ \E u \in Usernames, pw \in Passwords, dir \in ImageDirectories :
           /\ (u = "admin") = (pw = "greenhouse")
           /\ app' = Some([BASIC_AUTH_USERNAME |-> u,
                           BASIC_AUTH_PASSWORD |-> pw,
                           IMAGE_DIRECTORY |-> dir,
                           api_bp |-> [data_logger |-> Some("GreenhouseDataLogger")]])
    /\ UNCHANGED loggerVars
    /\ UNCHANGED <<settings, state, sent, rf_failed, now, presses, sensor_data,
                   in_schedule, last_sensor_read, last_log_write,
                   last_camera_capture, last_log_cleanup, override_since>>
    /\ UNCHANGED <<running, pc, signals, shutdown_log, loop, commands,
                   observer_alive, reloads, last_reload>>

\* the texts a query parameter can carry: the empty text, dates in the
\* format asked for, a date in another format
ParameterTexts ==
    {<<>>, <<"%d.%m.%Y", 1>>} \cup { Strftime(d) : d \in Dates }

\* a query parameter: None when it is left out
Parameters == {None} \cup { Some(t) : t \in ParameterTexts }

\* the query parameters a request to the path carries, those the handler of
\* the path reads
QueryArgs(path) ==
    CASE path \in {"/api/v1/history", "/api/v1/statistics",
                   "/api/v1/camera/list"} ->
             [day : Parameters, start : {None}, end : {None}]
      [] path = "/api/v1/history/range" ->
             [day : {None}, start : Parameters, end : Parameters]
      [] OTHER -> [day : {None}, start : {None}, end : {None}]

\* request.authorization: None without a basic-auth header
Authorizations ==
    {None} \cup { Some([username |-> u, password |-> pw]) :
                    u \in Usernames, pw \in Passwords }

ApiPaths == {"/api/v1/status", "/api/v1/history", "/api/v1/history/range",
             "/api/v1/statistics", "/api/v1/camera/latest",
             "/api/v1/camera/list", "/api/v1/camera/image"}

Paths == {"/", "/health"} \cup ApiPaths

\* `if text:` of an optional parameter: neither missing nor empty
Truthy(otext) == otext # None /\ otext # Some(<<>>)

Json(status, body) == [status |-> status, body |-> body]

\* record['timestamp'].isoformat() on every record
IsoRecords(records) ==
    [i \in 1 .. Len(records) |->
        [records[i] EXCEPT !.timestamp = <<"isoformat", @>>]]

\* check_auth, app.py lines 54-66
CheckAuth(a, username, password) ==
    /\ username = a.BASIC_AUTH_USERNAME
    /\ password = a.BASIC_AUTH_PASSWORD

\* requires_auth of app.py, lines 86-92: the 401 of authenticate(), None
\* when the route is to be called
RequiresAuth(a, auth) ==
    IF auth = None \/ ~CheckAuth(a, Get(auth).username, Get(auth).password)
    THEN Some(Json(401, [text |-> "Authentication required. Please provide valid credentials."]))
    ELSE None

ApiRequiresAuthUsernameOnly(a, auth) ==
    IF auth = None \/ Get(auth).username # a.BASIC_AUTH_USERNAME
    THEN Some(Json(401, [text |-> "Authentication required."]))
    ELSE None

\* requires_auth of the API, lines 26-42
ApiRequiresAuth(a, auth) ==
    IF \/ auth = None
       \/ Get(auth).username # a.BASIC_AUTH_USERNAME
       \/ Get(auth).password # a.BASIC_AUTH_PASSWORD
    THEN Some(Json(401, [text |-> "Authentication required."]))
    ELSE None

\* index: the dashboard, or the 500 of a template that is not found
IndexResponses ==
    {Json(200, [template |-> "index.html"]),
     Json(500, [error |-> "TemplateNotFound"])}

\* health
HealthResponse ==
    Json(200, [status |-> "healthy", service |-> "greenhouse-webserver",
               version |-> "0.1.0"])

NotInitialized == Json(500, [error |-> "Data logger not initialized"])

InvalidDateFormat == Json(400, [error |-> "Invalid date format. Use YYYY-MM-DD"])

\* the date of the parameter day: today without the parameter, None for a
\* text strptime refuses
DayOf(args) ==
    IF Truthy(args.day) THEN Strptime(Get(args.day)) ELSE Some(DateOf(now))

\* get_status, lines 57-72
ApiGetStatus(args) ==
    IF data_logger = None
    THEN NotInitialized
    ELSE LET latest_reading == GetLatestReading(current_dataframe)
         IN  IF latest_reading = None
             THEN Json(404, [error |-> "No data available"])
             ELSE Json(200, [status |-> "success",
                             data |-> [Get(latest_reading) EXCEPT
                                          !.timestamp = <<"isoformat", @>>]])

\* get_history, lines 90-133
ApiGetHistory(args) ==
    IF data_logger = None
    THEN NotInitialized
    ELSE IF DayOf(args) = None
    THEN InvalidDateFormat
    ELSE LET date == Get(DayOf(args))
             df == GetDataForDate(date, TRUE)
         IN  IF ~NonEmpty(df)
             THEN Json(200, [status |-> "success",
                             data |-> [date |-> Strftime(date),
                                       records |-> <<>>]])
             ELSE Json(200, [status |-> "success",
                             data |-> [date |-> Strftime(date),
                                       record_count |-> Len(Get(df)),
                                       records |-> IsoRecords(Get(df))]])

\* get_history_range, lines 151-205
ApiGetHistoryRange(args) ==
    IF data_logger = None
    THEN NotInitialized
    ELSE IF ~Truthy(args.start) \/ ~Truthy(args.end)
    THEN Json(400, [error |-> "Both start and end dates are required. Use YYYY-MM-DD format"])
    ELSE IF Strptime(Get(args.start)) = None \/ Strptime(Get(args.end)) = None
    THEN InvalidDateFormat
    ELSE LET start_date == Get(Strptime(Get(args.start)))
             end_date == Get(Strptime(Get(args.end)))
             df == GetDateRangeData(start_date, end_date, [d \in Dates |-> TRUE])
         IN  IF start_date > end_date
             THEN Json(400, [error |-> "Start date must be before or equal to end date"])
             ELSE IF ~NonEmpty(df)
             THEN Json(200, [status |-> "success",
                             data |-> [start_date |-> Strftime(start_date),
                                       end_date |-> Strftime(end_date),
                                       records |-> <<>>]])
             ELSE Json(200, [status |-> "success",
                             data |-> [start_date |-> Strftime(start_date),
                                       end_date |-> Strftime(end_date),
                                       record_count |-> Len(Get(df)),
                                       records |-> IsoRecords(Get(df))]])

\* get_statistics, lines 222-249
ApiGetStatistics(args) ==
    IF data_logger = None
    THEN NotInitialized
    ELSE IF DayOf(args) = None
    THEN InvalidDateFormat
    ELSE LET stats == GetStatistics(Get(DayOf(args)), TRUE)
         IN  IF stats = None
             THEN Json(404, [error |-> "No data available for the specified date"])
             ELSE Json(200, [status |-> "success", data |-> Get(stats)])

\* get_latest_camera_image, lines 265-286: the image with the greatest name
ApiCameraLatest(a) ==
    IF a.IMAGE_DIRECTORY = None
    THEN Json(404, [error |-> "Image directory not found"])
    ELSE IF Get(a.IMAGE_DIRECTORY) = {}
    THEN Json(404, [error |-> "No images available"])
    ELSE LET image_files == Get(a.IMAGE_DIRECTORY)
         IN  Json(200, [file |-> CHOOSE f \in image_files :
                                     \A g \in image_files : g[2] <= f[2]])

\* list_camera_images, lines 306-346: the images of the date, by name
ApiCameraList(a, args) ==
    IF DayOf(args) = None
    THEN InvalidDateFormat
    ELSE IF a.IMAGE_DIRECTORY = None
    THEN Json(404, [error |-> "Image directory not found"])
    ELSE LET date == Get(DayOf(args))
             image_files == { f \in Get(a.IMAGE_DIRECTORY) : f[2] = date }
         IN  Json(200, [status |-> "success",
                        data |-> [date |-> Strftime(date),
                                  image_count |-> Cardinality(image_files),
                                  images |-> image_files]])

\* get_camera_image, lines 365-383, asked for the image of the first date:
\* the name lies within the directory
ApiCameraImage(a) ==
    IF a.IMAGE_DIRECTORY = None \/ Image(1) \notin Get(a.IMAGE_DIRECTORY)
    THEN Json(404, [error |-> "Image not found"])
    ELSE Json(200, [file |-> Image(1)])

\* the handler of an API route
ApiHandler(a, path, args) ==
    CASE path = "/api/v1/status" -> ApiGetStatus(args)
      [] path = "/api/v1/history" -> ApiGetHistory(args)
      [] path = "/api/v1/history/range" -> ApiGetHistoryRange(args)
      [] path = "/api/v1/statistics" -> ApiGetStatistics(args)
      [] path = "/api/v1/camera/latest" -> ApiCameraLatest(a)
      [] path = "/api/v1/camera/list" -> ApiCameraList(a, args)
      [] path = "/api/v1/camera/image" -> ApiCameraImage(a)

\* the answers the application can give to a GET request
Responses(a, request) ==
    CASE request.path = "/health" -> {HealthResponse}
      [] request.path = "/" ->
             IF RequiresAuth(a, request.auth) # None
             THEN RequiresAuth(a, request.auth)
             ELSE IndexResponses
      [] OTHER ->
             IF ApiRequiresAuth(a, request.auth) # None
             THEN ApiRequiresAuth(a, request.auth)
             ELSE {ApiHandler(a, request.path, request.args)}

\* a client sends a GET request; the answer is kept with the request
HandleGet(path, auth, args) ==
    LET request == [path |-> path, auth |-> auth, args |-> args]
    IN  /\ app # None
        /\ \E response \in Responses(Get(app), request) :
               Query("GET", Some(request), Some(response), FALSE)

\* the log directory as the manager left it: for every date no file or a
\* file with one record; the application is not yet created
InitWeb ==
    /\ current_date = None
    /\ current_dataframe = None
    /\ \E logged \in SUBSET Dates :
           files = [f \in FileNames |->
                       IF \E d \in logged : f = LogFilename(d)
                       THEN Some(<<MkRecord([date |-> f[2][2], time |-> 1],
                                           LoggerReading, LoggerStates)>>)
                       ELSE None]
    /\ writes = <<>>
    /\ call = [op |-> "__init__", arg |-> None, ret |-> None, fault |-> FALSE]
    /\ issued = [d \in Dates |-> 0]
    /\ accepted = [d \in Dates |-> <<>>]
    /\ last_logged = None
    /\ restarts = 0
    /\ day_run = NoDayRun
    /\ InitManagerVars
    /\ settings = CHOOSE c \in SettingsSet : TRUE

NextWeb ==
    \/ CreateApp
    \/ \E path \in Paths, auth \in Authorizations :
           \E args \in QueryArgs(path) : HandleGet(path, auth, args)

SpecWeb == InitWeb /\ [][NextWeb]_vars

\* ------------------------------------------------------------ properties
Range(seq) == { seq[i] : i \in 1 .. Len(seq) }

IsPrefix(p, q) == Len(p) <= Len(q) /\ \A i \in 1 .. Len(p) : p[i] = q[i]

\* a step in which run_control_loop called control_temperature
ControlRan == last_sensor_read' # last_sensor_read /\ sensor_data'.data # None

\* the state a device has after the commands cmds, having been on = was
AfterCommands(was, cmds) ==
    IF cmds = <<>> THEN was ELSE cmds[Len(cmds)] = "on"

\* C1: with automatic heater control enabled, control_temperature(t)
\* switches the heater on iff t < target - tolerance and it was off,
\* switches it off iff t > target and it was on, and for
\* target - tolerance <= t <= target leaves its state alone and sends it no
\* command.
C1_HeaterHysteresis ==
    [][ (ControlRan /\ settings.temperature_control.heater_enabled) =>
        LET tc == settings.temperature_control
            t == Get(sensor_data'.data).temperature
            low == tc.target_temp_celsius - tc.temp_tolerance_celsius
            cmds == sent'["heater"]
        IN  /\ (cmds = <<"on">>) <=> (t < low /\ ~state["heater"])
            /\ (cmds = <<"off">>) <=> (t > tc.target_temp_celsius /\ state["heater"])
            /\ cmds \in {<<>>, <<"on">>, <<"off">>}
            /\ state'["heater"] = AfterCommands(state["heater"], cmds)
            /\ (low <= t /\ t <= tc.target_temp_celsius) =>
                   (cmds = <<>> /\ state'["heater"] = state["heater"])
      ]_vars

\* the loop alone has switched the heater on and, on a warmer reading, off
C1_Witness ==
    /\ presses = 0
    /\ settings.temperature_control.heater_enabled
    /\ sent["heater"] = <<"off">>
    /\ sensor_data.data # None
    /\ Get(sensor_data.data).temperature
           > settings.temperature_control.target_temp_celsius

\* C2: with automatic vent-fan control enabled, control_temperature(t)
\* switches the vent fan on iff t > target + tolerance and it was off,
\* switches it off iff t < target and it was on, and for
\* target <= t <= target + tolerance leaves its state alone.
C2_VentFanHysteresis ==
    [][ (ControlRan /\ settings.temperature_control.vent_fan_enabled) =>
        LET tc == settings.temperature_control
            t == Get(sensor_data'.data).temperature
            high == tc.target_temp_celsius + tc.temp_tolerance_celsius
            cmds == sent'["vent_fan"]
        IN  /\ (cmds = <<"on">>) <=> (t > high /\ ~state["vent_fan"])
            /\ (cmds = <<"off">>) <=> (t < tc.target_temp_celsius /\ state["vent_fan"])
            /\ cmds \in {<<>>, <<"on">>, <<"off">>}
            /\ state'["vent_fan"] = AfterCommands(state["vent_fan"], cmds)
            /\ (tc.target_temp_celsius <= t /\ t <= high) =>
                   (cmds = <<>> /\ state'["vent_fan"] = state["vent_fan"])
      ]_vars

\* the loop alone has switched the vent fan on and, on a cooler reading, off
C2_Witness ==
    /\ presses = 0
    /\ settings.temperature_control.vent_fan_enabled
    /\ sent["vent_fan"] = <<"off">>
    /\ sensor_data.data # None
    /\ Get(sensor_data.data).temperature
           < settings.temperature_control.target_temp_celsius

\* what the claim C3 says is_time_in_schedule returns for window w at time t
C3_Answer(w, t, answer) ==
    /\ ~w.enabled => ~answer
    /\ (w.enabled /\ w.start_time <= w.end_time) =>
           (answer <=> (w.start_time <= t /\ t <= w.end_time))
    /\ (w.enabled /\ w.start_time > w.end_time) =>
           (answer <=> (t >= w.start_time \/ t <= w.end_time))
    /\ (w.enabled /\ t \in {w.start_time, w.end_time}) => answer

\* C3: is_time_in_schedule is false for a disabled window; for an enabled one
\* with start <= end it is true iff start <= now <= end, with start > end it
\* is true iff now >= start or now <= end; both boundaries are inclusive.
C3_IsTimeInSchedule ==
    /\ in_schedule.grow_lights # None =>
           C3_Answer(settings.grow_lights_schedule, TimeOf(now),
                     Get(in_schedule.grow_lights))
    /\ in_schedule.stand_fan # None =>
           C3_Answer(settings.stand_fan_schedule, TimeOf(now),
                     Get(in_schedule.stand_fan))

\* a window across midnight was evaluated at its end time
C3_Witness ==
    /\ in_schedule.grow_lights = Some(TRUE)
    /\ settings.grow_lights_schedule.start_time
           > settings.grow_lights_schedule.end_time
    /\ TimeOf(now) = settings.grow_lights_schedule.end_time

\* C4: a device that a button press switched on and that stayed on for more
\* than SWITCH_TIMEOUT seconds is off after the next tick of the control
\* loop.  No state has a device on by manual override for longer than the
\* timeout, since the clock only moves in a tick.
C4_OverrideTimesOut ==
    \A d \in Devices :
        ~(state[d] /\ override_since[d] >= 0
                   /\ now - override_since[d] > SWITCH_TIMEOUT)

\* C5: n readings of one date logged into a fresh logger with no file of
\* that date make n \div 10 periodic saves, one at each 10th reading; a
\* flush after them makes one more save, and the file then holds the n
\* readings in the order they were logged.
C5_DayOfLogging ==
    (day_run.live /\ day_run.n > 0) =>
        LET date == Get(day_run.date)
            n == day_run.n
        IN  /\ Len(accepted[date]) = n
            /\ current_dataframe = Some(accepted[date])
            /\ \A i \in 1 .. n - 1 :
                   accepted[date][i].time_24hr < accepted[date][i + 1].time_24hr
            /\ ~day_run.flushed =>
                   /\ day_run.saves = n \div 10
                   /\ call.op = "log_data"
                   /\ (writes # <<>>) <=> (n % 10 = 0)
                   /\ \A i \in 1 .. Len(writes) :
                          writes[i] = SaveEvent(accepted[date], date, TRUE)
            /\ day_run.flushed =>
                   /\ day_run.saves = n \div 10 + 1
                   /\ writes = <<SaveEvent(accepted[date], date, TRUE)>>
                   /\ files[LogFilename(date)] = Some(accepted[date])

\* 25 readings were logged and flushed, with three saves in all
C5_Witness ==
    /\ day_run.live
    /\ day_run.flushed
    /\ day_run.n = 25
    /\ day_run.saves = 3

AcceptedRows == UNION { Range(accepted[d]) : d \in Dates }

PersistedRows ==
    UNION { Range(Get(files[f])) : f \in { g \in FileNames : files[g] # None } }

UnsavedRows == AcceptedRows \ PersistedRows

\* C6: at most 9 of the rows log_data accepted are in no persisted file.
C6_AtMostNineUnsaved == Cardinality(UnsavedRows) <= 9

\* nine rows are unsaved although a file was already written
C6_Witness ==
    /\ Cardinality(UnsavedRows) = 9
    /\ \E f \in FileNames : files[f] # None

\* a step that is a log_data call
LogStep == issued' # issued

\* C7: when log_data gets a reading of another date than the non-empty
\* resident log's, it first saves the resident log to the file of the
\* resident date, then makes the log of the new date resident; the new
\* reading is appended to the new date's log only.
C7_RolloverSavesOwnDate ==
    [][ (LogStep /\ current_date # None /\ current_date # call'.arg
                 /\ NonEmpty(current_dataframe)) =>
        LET old == Get(current_date)
            new == Get(call'.arg)
            record == accepted'[new][Len(accepted'[new])]
        IN  /\ Len(writes') >= 1
            /\ writes'[1] = SaveEvent(Get(current_dataframe), old, TRUE)
            /\ files'[LogFilename(old)] = current_dataframe
            /\ record \notin Range(Get(files'[LogFilename(old)]))
            /\ current_date' = Some(new)
            /\ current_dataframe' =
                   Some(Append(IF files[LogFilename(new)] = None THEN <<>>
                               ELSE Get(files[LogFilename(new)]), record))
            /\ \A i \in 2 .. Len(writes') :
                   writes'[i] = SaveEvent(Get(current_dataframe'), new, TRUE)
      ]_vars

\* the latest log_data call saved the log of another date than its own
C7_Witness ==
    /\ call.op = "log_data"
    /\ Len(writes) >= 1
    /\ writes[1].file # LogFilename(Get(call.arg))
    /\ files[writes[1].file] = Some(writes[1].rows)

\* C8: when a logger with no resident log for a date logs a reading of that
\* date and a file of k rows exists for it, the resident log becomes those
\* k rows followed by the reading, and every save writes the rows the file
\* already held followed by the later ones.
C8_RestartsAccumulate ==
    [][ /\ (LogStep /\ current_date # call'.arg) =>
            LET date == Get(call'.arg)
                record == accepted'[date][Len(accepted'[date])]
            IN  files[LogFilename(date)] # None =>
                    current_dataframe' =
                        Some(Append(Get(files[LogFilename(date)]), record))
        /\ \A i \in 1 .. Len(writes') :
               files[writes'[i].file] # None =>
                   /\ IsPrefix(Get(files[writes'[i].file]), writes'[i].rows)
                   /\ IsPrefix(Get(files[writes'[i].file]),
                               Get(files'[writes'[i].file]))
      ]_vars

\* after a restart the log was loaded from the file and saved again with the
\* rows of the earlier process in front
C8_Witness ==
    /\ restarts >= 1
    /\ call.op = "log_data"
    /\ writes # <<>>
    /\ Len(accepted[Today]) < Len(Get(current_dataframe))
    /\ files[LogFilename(Today)] = current_dataframe

\* C9: flush saves the resident log whenever it is not empty, whatever its
\* length, and the file of the resident date then equals the resident log;
\* with nothing resident, or an empty resident log, flush writes no file.
C9_FlushSaves ==
    [][ call'.op = "flush" =>
        IF NonEmpty(current_dataframe)
        THEN /\ writes' = <<SaveEvent(Get(current_dataframe),
                                      Get(current_date), TRUE)>>
             /\ files' = [files EXCEPT ![LogFilename(Get(current_date))] =
                                           current_dataframe]
             /\ files'[LogFilename(Get(current_date'))] = current_dataframe'
        ELSE writes' = <<>> /\ files' = files
      ]_vars

\* a flush saved a resident log whose length is no multiple of 10
C9_Witness ==
    /\ call.op = "flush"
    /\ Len(writes) = 1
    /\ Len(writes[1].rows) % 10 # 0
    /\ files[LogFilename(Get(current_date))] = current_dataframe

\* C10: get_data_for_date(d) returns the content of the file of d, or None
\* when there is no such file; it returns no row that is not saved yet.
C10_QueryReadsFile ==
    call.op = "get_data_for_date" =>
        LET f == LogFilename(Get(call.arg))
        IN  /\ call.ret = files[f]
            /\ call.ret # None => Range(Get(call.ret)) \cap UnsavedRows = {}

\* a query for the resident date missed rows that are not saved yet
C10_Witness ==
    /\ call.op = "get_data_for_date"
    /\ call.arg = current_date
    /\ call.ret # None
    /\ call.ret # current_dataframe
    /\ Range(Get(current_dataframe)) \cap UnsavedRows # {}

\* C11: get_latest_reading returns the record given to the most recent
\* log_data call of this logger instance, also right after a day rollover
\* or after an existing file was loaded, and no data when this instance has
\* logged nothing.
C11_LatestReading ==
    call.op = "get_latest_reading" => call.ret = last_logged

\* the latest reading was asked for after a log_data call that loaded the
\* file of its date
C11_Witness ==
    /\ call.op = "get_latest_reading"
    /\ call.ret # None
    /\ call.ret = last_logged
    /\ Len(Get(current_dataframe)) > Len(accepted[Get(current_date)])

\* the rows of the file of date d, none when there is no file
FileRows(d) ==
    IF files[LogFilename(d)] = None THEN <<>> ELSE Get(files[LogFilename(d)])

\* the number of persisted rows of the dates from start to d - 1
RowsBefore(start, d) ==
    LET S[e \in start .. d] ==
            IF e = start THEN 0 ELSE S[e - 1] + Len(FileRows(e - 1))
    IN  S[d]

\* C12: get_date_range_data(start, end) returns the persisted rows of the
\* dates of [start, end], in ascending date order and each date's rows in
\* file order, skipping dates with no file or an empty one; it returns no
\* data iff every date of the range is empty, as when start > end.
C12_DateRangeData ==
    call.op = "get_date_range_data" =>
        LET start == Get(call.arg).start_date
            end == Get(call.arg).end_date
            dates == start .. end
        IN  /\ (call.ret = None) <=> (\A d \in dates : FileRows(d) = <<>>)
            /\ call.ret # None =>
                   LET rows == Get(call.ret)
                   IN  /\ Len(rows) = RowsBefore(start, end + 1)
                       /\ \A d \in dates : \A i \in 1 .. Len(FileRows(d)) :
                              rows[RowsBefore(start, d) + i] = FileRows(d)[i]

\* a range of three dates was asked for with files of the first and the
\* last date only
C12_Witness ==
    /\ call.op = "get_date_range_data"
    /\ \E d \in QueryDates :
           /\ call.arg = Some([start_date |-> d, end_date |-> d + 2])
           /\ FileRows(d) # <<>>
           /\ FileRows(d + 1) = <<>>
           /\ FileRows(d + 2) # <<>>
           /\ call.ret = Some(FileRows(d) \o FileRows(d + 2))

\* what the claim C13 says of the min, max and mean reported for values
C13_Column(st, values) ==
    LET n == Len(values)
        total == LET S[i \in 0 .. n] ==
                         IF i = 0 THEN 0 ELSE S[i - 1] + values[i]
                 IN  S[n]
    IN  /\ st.min \in Range(values) /\ \A i \in 1 .. n : st.min <= values[i]
        /\ st.max \in Range(values) /\ \A i \in 1 .. n : st.max >= values[i]
        /\ st.mean.den > 0
        /\ st.mean.num * n = total * st.mean.den
        /\ values = <<20, 22, 24>> =>
               /\ st.min = 20 /\ st.max = 24
               /\ st.mean.num = 22 * st.mean.den

\* what the claim C13 says of the uptime percent reported for flags
C13_Uptime(pct, flags) ==
    LET n == Len(flags)
        on == Cardinality({ i \in 1 .. n : flags[i] })
    IN  /\ pct.den > 0
        /\ pct.num * n = on * 100 * pct.den
        /\ (n = 3 /\ on = 1) => 3 * pct.num = 100 * pct.den

\* C13: for a date with n >= 1 persisted rows get_statistics returns
\* record_count n, the minimum, maximum and arithmetic mean of temperature,
\* humidity and pressure over them, and per device the share of rows with
\* the device on times 100 (20, 22, 24 give mean 22, min 20, max 24; on in 1
\* of 3 rows gives 100/3); with no file or an empty one it returns None.
C13_Statistics ==
    call.op = "get_statistics" =>
        LET data == FileRows(Get(call.arg))
            st == Get(call.ret)
        IN  IF data = <<>>
            THEN call.ret = None
            ELSE /\ call.ret # None
                 /\ st.record_count = Len(data)
                 /\ C13_Column(st.temperature,
                               [i \in 1 .. Len(data) |-> data[i].temperature_celsius])
                 /\ C13_Column(st.humidity,
                               [i \in 1 .. Len(data) |-> data[i].humidity_percent])
                 /\ C13_Column(st.pressure,
                               [i \in 1 .. Len(data) |-> data[i].pressure_hpa])
                 /\ C13_Uptime(st.device_uptime.heater_percent,
                               [i \in 1 .. Len(data) |-> data[i].heater_state])
                 /\ C13_Uptime(st.device_uptime.vent_fan_percent,
                               [i \in 1 .. Len(data) |-> data[i].vent_fan_state])
                 /\ C13_Uptime(st.device_uptime.grow_lights_percent,
                               [i \in 1 .. Len(data) |-> data[i].grow_lights_state])
                 /\ C13_Uptime(st.device_uptime.stand_fan_percent,
                               [i \in 1 .. Len(data) |-> data[i].stand_fan_state])

\* statistics were asked for of a date with the persisted temperatures 20,
\* 22, 24 and the heater on in one of the three rows
C13_Witness ==
    /\ call.op = "get_statistics"
    /\ call.ret # None
    /\ Get(call.ret).record_count = 3
    /\ Get(call.ret).temperature =
           [min |-> 20, max |-> 24, mean |-> [num |-> 66, den |-> 3]]
    /\ Get(call.ret).device_uptime.heater_percent = [num |-> 100, den |-> 3]

\* a step that is a cleanup_old_logs call
CleanupStep == call'.op = "cleanup_old_logs" /\ now' = now

\* C14: cleanup_old_logs with maximum age M, run at any time of day T,
\* deletes exactly the log files dated more than M days before T: with
\* T = 100 and M = 30 the files dated day 69 or earlier go and the files
\* dated day 70 or later, the one exactly 30 days old included, stay.
C14_CleanupByAge ==
    [][ CleanupStep =>
        \A d \in CleanupDates :
            files'[LogFilename(d)] =
                IF d < DateOf(now) - settings.data_logging.max_log_days
                THEN None
                ELSE files[LogFilename(d)]
      ]_vars

\* C15: cleanup_old_logs leaves a file in place whose name matches the
\* pattern of the log files but carries no date, and still deletes every
\* well-formed file that is older than the maximum age, whatever the order
\* in which it visits the files.
C15_MalformedSkipped ==
    [][ CleanupStep =>
        /\ files'[MalformedName] = files[MalformedName]
        /\ \A d \in CleanupDates :
               d < DateOf(now) - settings.data_logging.max_log_days =>
                   files'[LogFilename(d)] = None
        /\ \A f \in CleanupNames : files'[f] \in {None, files[f]}
      ]_vars

\* a cleanup visited the file without a date first and an expired file
\* after it, and only the expired file is gone
C15_Witness ==
    /\ call.op = "cleanup_old_logs"
    /\ Len(Get(call.arg)) >= 2
    /\ Get(call.arg)[1] = MalformedName
    /\ files[MalformedName] # None
    /\ \E i \in 2 .. Len(Get(call.arg)) :
           /\ Get(call.arg)[i] = LogFilename(CleanupToday - 31)
           /\ files[Get(call.arg)[i]] = None

\* C16: after a save attempt that fails, in a periodic save, a flush or the
\* save made at day rollover, the rows of the log that was being saved are
\* still held in memory, so that a later save can persist them.
C16_FailedSaveKeepsRecords ==
    [][ \A i \in 1 .. Len(writes') :
            ~writes'[i].ok =>
                /\ current_dataframe' # None
                /\ IsPrefix(writes'[i].rows, Get(current_dataframe'))
      ]_vars

\* C17: a query that hits an internal fault, a log file that is there and
\* cannot be read, returns an outcome other than the one for a date that has
\* no file.
C17_FaultDistinctFromNotFound ==
    (call.op \in {"get_data_for_date", "get_date_range_data", "get_statistics"}
        /\ call.fault)
    => call.ret # None

\* C18: when the RF command of turn_on or turn_off fails, the recorded state
\* of the device is not updated: get_state() returns after the call what it
\* returned before.
C18_FailedCommandKeepsState ==
    [][ \A d \in Devices :
            (sent'[d] # <<>> /\ rf_failed') => state'[d] = state[d]
      ]_vars

\* a step that is a tick of the control loop
TickStep == presses' = presses

\* a timestamp in seconds
SecondsOf(timestamp) == timestamp.date * DaySeconds + timestamp.time

\* all the rows this instance logged
AllAccepted == UNION { Range(accepted[d]) : d \in DOMAIN accepted }

\* C19: a tick whose sensor read fails sends no outlet command, logs no
\* record and leaves every device state as it was; the loop goes on, a
\* later tick reading the sensor again once the read interval has passed.
C19_FailedReadNoAction ==
    [][ TickStep =>
        /\ sensor_data'.read <=>
               (now' - last_sensor_read >= settings.sensor.read_interval_seconds)
        /\ (sensor_data'.read /\ sensor_data'.data = None) =>
               /\ sent' = NoneSent
               /\ state' = state
               /\ accepted' = accepted
               /\ current_dataframe' = current_dataframe
               /\ \A f \in FileNames : files'[f] \in {None, files[f]}
               /\ last_sensor_read' = now'
      ]_vars

\* the first tick of the loop read no data, and a later tick read the
\* sensor and logged the first record
C19_Witness ==
    /\ sensor_data.read
    /\ sensor_data.data # None
    /\ last_logged # None
    /\ AllAccepted = last_logged
    /\ SecondsOf(Get(last_logged).timestamp) = now
    /\ last_camera_capture < now

\* C20: log_data is called only in a tick in which the sensor read was due
\* and gave data, logging is enabled and at least log_interval_seconds have
\* passed since the previous logged record; the record holds the reading of
\* that tick and the device states after its control decisions.
C20_LogOnlyWhenDue ==
    [][ accepted' # accepted =>
        LET record == Get(last_logged')
        IN  /\ TickStep
            /\ now' - last_sensor_read >= settings.sensor.read_interval_seconds
            /\ sensor_data'.read
            /\ sensor_data'.data # None
            /\ settings.data_logging.enabled
            /\ last_logged # None =>
                   now' - SecondsOf(Get(last_logged).timestamp)
                       >= settings.data_logging.log_interval_seconds
            /\ SecondsOf(record.timestamp) = now'
            /\ record.temperature_celsius = Get(sensor_data'.data).temperature
            /\ \A d \in Devices :
                   state'[d] = AfterCommands(state[d], sent'[d])
            /\ record.heater_state = state'["heater"]
            /\ record.vent_fan_state = state'["vent_fan"]
            /\ record.grow_lights_state = state'["grow_lights"]
            /\ record.stand_fan_state = state'["stand_fan"]
      ]_vars

\* the tick that logged the second record had switched the vent fan on,
\* and the record has the vent fan on
C20_Witness ==
    /\ presses = 0
    /\ last_logged # None
    /\ SecondsOf(Get(last_logged).timestamp) = now
    /\ sent["vent_fan"] = <<"on">>
    /\ Get(last_logged).vent_fan_state
    /\ Cardinality(AllAccepted) >= 2

\* the number of times shutdown was entered
ShutdownCalls ==
    Cardinality({ i \in 1 .. Len(shutdown_log) :
                      shutdown_log[i].step = "shutdown" })

\* in the log of shutdown, the flush of the data logger comes before every
\* release
FlushBeforeRelease ==
    \A i \in 1 .. Len(shutdown_log) :
        shutdown_log[i].step \in ReleaseSteps =>
            \E j \in 1 .. i - 1 : shutdown_log[j].step = "data_logger.flush"

\* C21: once a signal was taken, run() starts no further tick: the tick in
\* progress is finished at most.  shutdown runs once and no more, also when
\* the tick raised, and in it the data logger is flushed before any adapter
\* is released.
C21_SignalThenShutdown ==
    [][ /\ (signals > 0 /\ pc # "run_control_loop")
               => pc' # "run_control_loop"
        /\ ShutdownCalls' <= 1
        /\ FlushBeforeRelease'
        /\ pc' \in {"exited", "raised"} =>
               /\ ShutdownCalls' = 1
               /\ \E i \in 1 .. Len(shutdown_log') :
                      shutdown_log'[i].step = "data_logger.flush"
        /\ (pc = "except" /\ pc' # "except") => ShutdownCalls' = 1
      ]_vars

\* a signal came while a tick was in progress or the loop slept, and the
\* process has left run() after a shutdown that released everything
C21_Witness ==
    /\ pc = "exited"
    /\ signals > 0
    /\ now > StartTime
    /\ Len(shutdown_log) = Len(ShutdownSteps) + 1
    /\ \A i \in 1 .. Len(shutdown_log) : shutdown_log[i].ok

\* C22: when the release of one adapter fails in shutdown, shutdown goes on
\* and releases the adapters, buttons and the observer that come after it:
\* every release of shutdown has been attempted when shutdown is over.
C22_ReleaseContinues ==
    pc \in {"exited", "raised"} =>
        \A r \in ReleaseSteps :
            \E i \in 1 .. Len(shutdown_log) : shutdown_log[i].step = r

\* C24: the construction of a TimeSchedule whose end time equals its start
\* time fails for every time, enabled or disabled or with enabled left out;
\* with a start time different from the end time, start after end included,
\* it gives the schedule with the times and the enabled flag it was given.
C24_SameStartEndRejected ==
    call.op = "TimeSchedule" =>
        LET raw == Get(call.arg)
        IN  /\ (raw.start_time # None /\ raw.end_time = raw.start_time)
                   => call.ret = None
            /\ (/\ raw.start_time # None
                /\ raw.end_time # None
                /\ raw.end_time # raw.start_time)
                   => /\ call.ret # None
                      /\ Get(call.ret).start_time = Get(raw.start_time)
                      /\ Get(call.ret).end_time = Get(raw.end_time)
                      /\ raw.enabled # None
                             => Get(call.ret).enabled = Get(raw.enabled)

\* a disabled schedule from noon to noon was refused
C24_Witness ==
    /\ call.op = "TimeSchedule"
    /\ Get(call.arg).enabled = Some(FALSE)
    /\ Get(call.arg).start_time = Some(DaySeconds \div 2)
    /\ Get(call.arg).end_time = Some(DaySeconds \div 2)
    /\ call.ret = None

\* the documents from which valid settings are made
ValidDocuments == { RawConfig(c) : c \in SettingsSet }

\* the file is rejected: it is missing, no JSON, or no valid document
Rejected(file) == file.kind # "json" \/ Get(file.data) \notin ValidDocuments

\* the settings a valid document stands for
SettingsOf(doc) == CHOOSE c \in SettingsSet : RawConfig(c) = doc

\* C23: a reload that finds a missing, unparsable or invalid file leaves
\* the settings object as it was, no field changed, and leaves the control
\* loop running; a reload that finds a valid file makes the settings the
\* settings of that file as a whole
C23_ReloadAllOrNothing ==
    [][reloads' = reloads + 1 =>
          LET file == Get(last_reload')
          IN  IF Rejected(file)
              THEN /\ settings' = settings
                   /\ UNCHANGED <<running, pc, loop, now>>
              ELSE settings' = SettingsOf(Get(file.data))]_vars

\* a reload was rejected because of one invalid field, the settings differ
\* from the file in other fields too, and the loop has gone on to switch an
\* outlet at a later time
C23_Witness ==
    /\ reloads = 1
    /\ last_reload # None
    /\ Get(last_reload).kind = "json"
    /\ Rejected(Get(last_reload))
    /\ Get(Get(last_reload).data).data_logging # settings.data_logging
    /\ settings \in SettingsSet
    /\ now > StartTime
    /\ sent # NoneSent

\* C25: no two outlet commands are in progress at the same time: a command
\* of a button callback never overlaps a command of the control loop or of
\* another callback
C25_NoOverlappingCommands == Cardinality(commands) <= 1

\* C26: the values of target, tolerance, heater_enabled, vent_fan_enabled,
\* the schedules and the log interval that one tick of the control loop
\* uses all come from one settings object, also when a reload completes
\* while the tick runs
C26_OneSnapshotPerTick == Cardinality(loop.used) <= 1

\* targets and tolerances at the ends and inside the ranges the settings
\* accept, temperatures around all of them
BandTargets == {0, 22, 50}
BandTolerances == {0, 2, 10}
BandTemperatures == -11 .. 61

\* with both controls enabled and both outlets off, what control_temperature
\* leaves on at this target, tolerance and temperature
BothSwitchedOn(target, tolerance, temperature) ==
    LET tc == [target_temp_celsius |-> target,
               temp_tolerance_celsius |-> tolerance,
               heater_enabled |-> TRUE, vent_fan_enabled |-> TRUE]
        o == ControlTemperature([state |-> [d \in Devices |-> FALSE],
                                 sent |-> NoneSent], tc, temperature)
    IN  o.state["heater"] /\ o.state["vent_fan"]

NoBandOverlap ==
    \A target \in BandTargets : \A tolerance \in BandTolerances :
        \A temperature \in BandTemperatures :
            ~BothSwitchedOn(target, tolerance, temperature)

\* automatic control alone: both controls enabled, no button pressed
AutomaticOnly ==
    /\ presses = 0
    /\ settings.temperature_control.heater_enabled
    /\ settings.temperature_control.vent_fan_enabled

\* C27, as stated: for some target, tolerance >= 0 and temperature, those
\* in force among them, the band of the heater and the band of the vent fan
\* are satisfied together, so that one tick of control_temperature leaves
\* both on
C27_BandsSatisfiedTogether ==
    \E target \in BandTargets
                   \cup {settings.temperature_control.target_temp_celsius} :
        \E tolerance \in BandTolerances
                   \cup {settings.temperature_control.temp_tolerance_celsius} :
            \E temperature \in BandTemperatures :
                BothSwitchedOn(target, tolerance, temperature)

\* C27, amended: for no target, tolerance >= 0 and temperature are the band
\* of the heater and the band of the vent fan satisfied together, and
\* automatic temperature control alone (both controls enabled, no button
\* press, no reload) never leaves heater and vent fan both on after a tick
C27_AutomaticNeverBothOn ==
    /\ NoBandOverlap
    /\ AutomaticOnly => ~(state["heater"] /\ state["vent_fan"])

\* automatic control alone, in a tick that found the heater on above the
\* band of the vent fan: it switched the heater off and the vent fan on
C27_Witness ==
    /\ AutomaticOnly
    /\ sent["heater"] = <<"off">>
    /\ sent["vent_fan"] = <<"on">>
    /\ state["vent_fan"]
    /\ ~state["heater"]

\* the request answered last, its answer, and whether it carried the
\* credentials of the application
Request == Get(call.arg)
Response == Get(call.ret)
Authenticated ==
    Request.auth = Some([username |-> Get(app).BASIC_AUTH_USERNAME,
                         password |-> Get(app).BASIC_AUTH_PASSWORD])

\* a text in the format YYYY-MM-DD
WellFormed(otext) == otext # None /\ Get(otext) # <<>> /\ Get(otext)[1] = "%Y-%m-%d"

\* C28: a request to '/' or to an endpoint of /api/v1 without credentials or
\* with wrong ones is answered 401, whatever its parameters, the log files
\* and the image directory; /health is answered 200 without credentials
C28_UnauthenticatedGets401 ==
    call.op = "GET" =>
        /\ (Request.path # "/health" /\ ~Authenticated) => Response.status = 401
        /\ Request.path = "/health" => Response.status = 200

\* a range request with the right user name, a wrong password and log files
\* for its dates in the directory was answered 401
C28_Witness ==
    /\ call.op = "GET"
    /\ Request.path = "/api/v1/history/range"
    /\ Request.auth # None
    /\ Get(Request.auth).username = Get(app).BASIC_AUTH_USERNAME
    /\ Get(Request.auth).password # Get(app).BASIC_AUTH_PASSWORD
    /\ Request.args.start = Some(Strftime(1))
    /\ Request.args.end = Some(Strftime(MaxDate))
    /\ files[LogFilename(1)] # None
    /\ Response.status = 401

\* C29: an authenticated GET /api/v1/history without a day or with a day in
\* the format YYYY-MM-DD is answered 200 with status 'success' and a data
\* object that carries the date asked for, with or without a log file of
\* that date
C29_HistoryAnswered ==
    (/\ call.op = "GET"
     /\ Request.path = "/api/v1/history"
     /\ Authenticated
     /\ Request.args.day = None \/ WellFormed(Request.args.day))
        => /\ Response.status = 200
           /\ "status" \in DOMAIN Response.body
           /\ Response.body.status = "success"
           /\ Response.body.data.date =
                  (IF Request.args.day = None THEN Strftime(DateOf(now))
                   ELSE Get(Request.args.day))

\* C30: an authenticated request is answered 400 when /api/v1/history gets
\* a day that is not YYYY-MM-DD, and when /api/v1/history/range lacks start
\* or end, gets an ill-formed date, or gets a start after the end
C30_BadRequestsGet400 ==
    (/\ call.op = "GET"
     /\ Authenticated
     /\ \/ /\ Request.path = "/api/v1/history"
           /\ Request.args.day # None
           /\ Request.args.day # Some(<<>>)
           /\ ~WellFormed(Request.args.day)
        \/ /\ Request.path = "/api/v1/history/range"
           /\ \/ Request.args.start = None
              \/ Request.args.end = None
              \/ ~WellFormed(Request.args.start)
              \/ ~WellFormed(Request.args.end)
              \/ Get(Request.args.start)[2] > Get(Request.args.end)[2])
        => Response.status = 400

\* the outlets as they are, nothing sent yet
Outlets == [state |-> state, sent |-> NoneSent]

\* toggle() of outlet d inverts its recorded state, leaves the other outlets
\* alone, and a second toggle() gives back the states before the first
ToggleInverts(d) ==
    LET once == Toggle(Outlets, d)
        twice == Toggle([state |-> once.state, sent |-> NoneSent], d)
    IN  /\ once.state[d] = ~state[d]
        /\ \A e \in Devices \ {d} : once.state[e] = state[e]
        /\ twice.state = state

\* C31: an RFOutlet starts off; toggle() inverts the recorded state, and two
\* toggles in a row restore the state before them, whether it was on or off
C31_ToggleInvolution ==
    /\ \A d \in Devices : ~state[d]
    /\ [](\A d \in Devices : ToggleInverts(d))

\* a toggle switched an outlet on while another, switched on before, is on
\* and a third is off: toggles start from both states
C31_Witness ==
    /\ state["heater"]
    /\ sent["heater"] = <<"on">>
    /\ state["vent_fan"]
    /\ ~state["grow_lights"]

\* the argument and the result of the construction made last
Raw == Get(call.arg)

\* C32: a construction with a value out of range gives no settings object:
\* a target temperature outside 0..50, a target humidity outside 0..100, a
\* camera interval outside 1..1440 minutes, a log format other than parquet
\* and feather, a LED pin outside 0..27
C32_OutOfRangeRejected ==
    /\ (/\ call.op = "TemperatureControl"
        /\ Raw.target_temp_celsius < 0 \/ Raw.target_temp_celsius > 50)
           => call.ret = None
    /\ (/\ call.op = "HumidityControl"
        /\ Raw.target_humidity_percent < 0 \/ Raw.target_humidity_percent > 100)
           => call.ret = None
    /\ (/\ call.op = "CameraSchedule"
        /\ Raw.interval_minutes < 1 \/ Raw.interval_minutes > 1440)
           => call.ret = None
    /\ (/\ call.op = "DataLogging"
        /\ Raw.log_format # "parquet"
        /\ Raw.log_format # "feather")
           => call.ret = None
    /\ (/\ call.op = "DeviceConfig"
        /\ Raw.led_gpio_pin < 0 \/ Raw.led_gpio_pin > 27)
           => call.ret = None

\* a target temperature of 51 with a tolerance in range was refused
C32_Witness ==
    /\ call.op = "TemperatureControl"
    /\ Raw.target_temp_celsius = 51
    /\ Raw.temp_tolerance_celsius = 2
    /\ call.ret = None

\* the appends of this process to the log of today after a log_data step,
\* which are the appends since the load: SpecDay logs one date only
SinceLoad == Len(accepted'[Today])

\* the rows the resident log had before the append of a log_data step: the
\* rows loaded from the file in the step that loads, the resident rows else
RowsBeforeAppend ==
    IF current_date = None
    THEN IF files[LogFilename(Today)] = None THEN 0
         ELSE Len(Get(files[LogFilename(Today)]))
    ELSE Len(Get(current_dataframe))

\* C33, as stated: the periodic saves come with the 10th, 20th, ... append
\* counted since the load of the resident log, whatever the number of
\* records the file held
C33_SavesCountedSinceLoad ==
    [][LogStep => ((writes' # <<>>) <=> (SinceLoad % 10 = 0))]_vars

\* C33, amended: when the resident log was loaded from a file holding k
\* records, the periodic saves come with the appends that bring the length
\* of the resident log, k plus the appends since the load, to 10, 20, ...
C33_SavesCountedOnLength ==
    [][LogStep =>
          /\ Len(Get(current_dataframe')) = RowsBeforeAppend + 1
          /\ (writes' # <<>>) <=> ((RowsBeforeAppend + 1) % 10 = 0)]_vars

\* after a restart the log was loaded with 3 records, and the 7th append
\* since then was saved
C33_Witness ==
    /\ restarts = 1
    /\ call.op = "log_data"
    /\ Len(accepted[Today]) = 7
    /\ Len(Get(current_dataframe)) = 10
    /\ writes # <<>>

ScheduledDevices == {"grow_lights", "stand_fan"}

\* the schedule of a scheduled device
ScheduleOf(d) == IF d = "grow_lights" THEN settings.grow_lights_schedule
                 ELSE settings.stand_fan_schedule

\* a tick of the control loop that ran control_scheduled_devices
ScheduleRan == TickStep /\ in_schedule'.grow_lights # None

\* whether the schedule of device d is active at the time of the tick
ActiveAtTick(d) == IsTimeInSchedule(ScheduleOf(d), TimeOf(now'))

\* C34: after control_scheduled_devices the recorded state of the grow
\* lights and of the stand fan is the value of is_time_in_schedule of its
\* schedule at that time, whatever it was before; a device with a disabled
\* schedule ends off; a device gets a command only when its state changes
C34_ScheduledStateFollowsSchedule ==
    [][ScheduleRan =>
          \A d \in ScheduledDevices :
              /\ state'[d] = ActiveAtTick(d)
              /\ in_schedule'[d] = Some(ActiveAtTick(d))
              /\ ~ScheduleOf(d).enabled => ~state'[d]
              /\ sent'[d] = IF state'[d] = state[d] THEN <<>>
                            ELSE IF state'[d] THEN <<"on">> ELSE <<"off">>
      ]_vars

\* a tick inside the window of the grow lights switched them on and left the
\* stand fan, whose schedule is disabled, off without a command
C34_Witness ==
    /\ in_schedule.grow_lights = Some(TRUE)
    /\ sent["grow_lights"] = <<"on">>
    /\ state["grow_lights"]
    /\ ~settings.stand_fan_schedule.enabled
    /\ sent["stand_fan"] = <<>>
    /\ ~state["stand_fan"]

\* C37: a scheduled device whose state contradicts its schedule, as after a
\* button toggle, is set back by the next tick that reads the sensor with
\* success: that tick sends the undoing command, the state is the value of
\* the schedule again and no manual override is left
C37_ScheduleUndoesToggle ==
    [][ScheduleRan =>
          \A d \in ScheduledDevices :
              state[d] # ActiveAtTick(d) =>
                  /\ state'[d] = ActiveAtTick(d)
                  /\ sent'[d] # <<>>
                  /\ override_since'[d] = -1
      ]_vars

\* the grow lights, switched on by their button before their window, were
\* switched off by a tick
C37_Witness ==
    /\ presses = 1
    /\ now = StartTime
    /\ settings.grow_lights_schedule = WithinDay
    /\ in_schedule.grow_lights = Some(FALSE)
    /\ sent["grow_lights"] = <<"off">>
    /\ ~state["grow_lights"]

\* C35: for each outlet, after any interleaving of commands of the control
\* loop and toggles of the buttons, once no command is in progress the
\* recorded state is that of the last RF command sent to the outlet, and
\* the recorded state changes only with a command sent to the outlet
C35_StateIsLastCommand ==
    [][\A d \in Devices :
          /\ (commands' = {} /\ sent'[d] # <<>>) =>
                 state'[d] = (sent'[d][Len(sent'[d])] = "on")
          /\ state'[d] # state[d] =>
                 \E c \in commands : c.device = d /\ state'[d] = (c.code = "on")
      ]_vars

\* C36: the query operations get_latest_reading, get_data_for_date,
\* get_date_range_data and get_statistics leave the resident log, the
\* resident date and every persisted file as they were.
QueryOps ==
    {"get_latest_reading", "get_data_for_date", "get_date_range_data",
     "get_statistics"}

C36_QueriesLeaveLogUnchanged ==
    [][call'.op \in QueryOps =>
           UNCHANGED <<current_date, current_dataframe, files>>]_vars

C36_Witness ==
    /\ call.op = "get_statistics"
    /\ call.ret # None
    /\ current_dataframe # None
    /\ Get(current_dataframe) # <<>>
    /\ \E f \in DOMAIN files : files[f] # None

\* C38: after a rejected reload the observer still processes modifications
\* of the configuration file: a later modification to a valid configuration
\* is loaded by on_config_changed and becomes the active configuration.
C38_ReloadAfterRejection ==
    (last_reload # None /\ Rejected(Get(last_reload))) => observer_alive

\* C39: every save of a date's file writes a sequence of records that has
\* the sequence persisted in that file before the save as a prefix: no
\* persisted record is dropped, reordered or duplicated by log_data or flush,
\* also when the load of the date's existing file fails.
C39_SavesExtendPersisted ==
    [][\A i \in DOMAIN writes' :
          (writes'[i].ok /\ files[writes'[i].file] # None) =>
              IsPrefix(Get(files[writes'[i].file]), writes'[i].rows)]_vars

====
